---------------------------- MODULE Spec2Model ----------------------------
(***************************************************************************)
(* A model of pdtypes' scalar coercion kernel (src/pdtypes/apply.py) and   *)
(* of its string inferencer (src/pdtypes/parse.py).                        *)
(*                                                                         *)
(* Python values are records [k, a, b, s]:                                 *)
(*   k  the concrete Python type ("int", "float", "complex", "bool",       *)
(*      "str", "Timestamp", "datetime", "Timedelta", "timedelta") or one   *)
(*      of the four missing values ("None", "nan", "NA", "NaT");           *)
(*   a  the numeric content in units of 10^-Digits (an int n is n*Scale,   *)
(*      a datetime is its POSIX timestamp, a timedelta its total seconds); *)
(*   b  the imaginary part of a complex (same units), or the UTC offset    *)
(*      in hours of a datetime;                                            *)
(*   s  the text of a str.                                                 *)
(* The outcome of a call is [st, v, exc, msg]: a returned value, or the    *)
(* class of the exception raised together with the kind of its message.    *)
(***************************************************************************)
EXTENDS Integers, Sequences, FiniteSets, TLC

VARIABLES cache, last, ncalls, threads

vars == <<cache, last, ncalls, threads>>

----------------------------------------------------------------------------
(* Bounds of the model *)

\* decimal digits kept after the point: every number is a multiple of 10^-Digits
Digits == 1

\* largest magnitude of the whole part of a number drawn as an input
MaxInt == 2

\* largest explicit tolerance drawn as an input, in units
MaxFtol == 2

\* calls made to the memoized functions in one run
MaxCalls == 2

\* longest column converted in one call
MaxLen == 2

Scale == 10 ^ Digits

\* the largest n such that a float holds every integer up to n exactly; stands
\* for 2^53 (2^20 here, above every other number drawn)
FloatExact == 1048576

\* ftol: float = 1e-6.  The default lies below the model's resolution; for
\* numbers on the grid, |d| < 1e-6 and |d| < one unit both mean d = 0.
DefaultFtol == 1

----------------------------------------------------------------------------
(* Python values *)

V(k, a, b, s) == [k |-> k, a |-> a, b |-> b, s |-> s]

PyInt(n) == V("int", n * Scale, 0, "")

PyFloat(x) == V("float", x, 0, "")

PyComplex(re, im) == V("complex", re, im, "")

PyBool(t) == V("bool", IF t THEN Scale ELSE 0, 0, "")

\* decimal.Decimal(s), of value x: a scalar of no kind parse_dtype names, which
\* np.dtype classifies as object
PyDecimal(x, s) == V("Decimal", x, 0, s)

PyStr(s) == V("str", 0, 0, s)

\* a datetime-like of concrete type rt at POSIX timestamp x, UTC offset off
DateTimeV(rt, x, off) == V(rt, x, off, "")

\* a timedelta-like of concrete type rt with total seconds x
TimeDeltaV(rt, x) == V(rt, x, 0, "")

None == V("None", 0, 0, "")

np_nan == V("nan", 0, 0, "")

pd_NA == V("NA", 0, 0, "")

pd_NaT == V("NaT", 0, 0, "")

MissingValues == {None, np_nan, pd_NA, pd_NaT}

\* pd.isnull(element), for a scalar
isnull(element) == element.k \in {"None", "nan", "NA", "NaT"}

(* Outcomes *)

Return(v) == [st |-> "ok", v |-> v, exc |-> "", msg |-> ""]

Raise(exc, msg) == [st |-> "raise", v |-> None, exc |-> exc, msg |-> msg]

Pending == [st |-> "pending", v |-> None, exc |-> "", msg |-> ""]

----------------------------------------------------------------------------
(* Arithmetic on units *)

Abs(x) == IF x < 0 THEN -x ELSE x

\* np.round(x): the nearest whole number, ties to the even one
np_round(x) ==
    LET f == x \div Scale
        r == x - f * Scale
    IN  IF 2 * r < Scale THEN f * Scale
        ELSE IF 2 * r > Scale THEN (f + 1) * Scale
        ELSE IF f % 2 = 0 THEN f * Scale ELSE (f + 1) * Scale

\* int(x) of a float: truncation toward zero
int_trunc(x) == IF x >= 0 THEN (x \div Scale) * Scale ELSE -(((-x) \div Scale) * Scale)

\* a variant of abs_lt with the comparison not strict: abs(z) <= ftol
abs_le(dre, dim, ftol) ==
    /\ ftol >= 0
    /\ Abs(dre) <= ftol
    /\ Abs(dim) <= ftol
    /\ dre * dre + dim * dim <= ftol * ftol

\* abs(z) < ftol for the difference z = dre + dim*j (dim = 0 for reals)
abs_lt(dre, dim, ftol) ==
    /\ ftol > 0
    /\ Abs(dre) < ftol
    /\ Abs(dim) < ftol
    /\ dre * dre + dim * dim < ftol * ftol

IsNumber(x) == x.k \in {"int", "float", "complex", "bool"}

----------------------------------------------------------------------------
(* Text rendering: str(x) *)

DigitChar(d) == SubSeq("0123456789", d + 1, d + 1)

RECURSIVE NatStr(_)
NatStr(n) == IF n < 10 THEN DigitChar(n) ELSE NatStr(n \div 10) \o DigitChar(n % 10)

\* str(n) of an int
IntStr(n) == IF n < 0 THEN "-" \o NatStr(-n) ELSE NatStr(n)

\* n written with exactly w digits
RECURSIVE PadStr(_, _)
PadStr(n, w) == IF w = 0 THEN "" ELSE PadStr(n \div 10, w - 1) \o DigitChar(n % 10)

\* the digits after the point of r/10^w, trailing zeros dropped ("" for 0)
RECURSIVE FracDigits(_, _)
FracDigits(r, w) ==
    IF r = 0 \/ w = 0 THEN ""
    ELSE IF r % 10 = 0 THEN FracDigits(r \div 10, w - 1)
    ELSE PadStr(r, w)

\* repr(x) of a float
FloatStr(x) ==
    LET m == Abs(x)
        fr == FracDigits(m % Scale, Digits)
    IN  (IF x < 0 THEN "-" ELSE "") \o NatStr(m \div Scale) \o "."
            \o (IF fr = "" THEN "0" ELSE fr)

\* a real or imaginary part inside repr(complex): no ".0" on whole numbers
PartStr(x) ==
    LET m == Abs(x)
        fr == FracDigits(m % Scale, Digits)
    IN  (IF x < 0 THEN "-" ELSE "") \o NatStr(m \div Scale)
            \o (IF fr = "" THEN "" ELSE "." \o fr)

\* repr(z) of a complex
ComplexStr(re, im) ==
    IF re = 0 THEN PartStr(im) \o "j"
    ELSE "(" \o PartStr(re) \o (IF im < 0 THEN "" ELSE "+") \o PartStr(im) \o "j)"

\* the clock part H:MM:SS[.ffffff] of x units within one day
ClockStr(x, hourWidth) ==
    LET secs == x \div Scale
        fr == x % Scale
        h == secs \div 3600
        hs == IF hourWidth = 2 THEN PadStr(h, 2) ELSE NatStr(h)
    IN  hs \o ":" \o PadStr((secs \div 60) % 60, 2) \o ":" \o PadStr(secs % 60, 2)
            \o (IF fr = 0 THEN "" ELSE "." \o PadStr(fr, Digits) \o PadStr(0, 6 - Digits))

DayUnits == 86400 * Scale

\* str(td) of a pd.Timedelta and of a datetime.timedelta
TimedeltaStr(rt, x) ==
    LET d == x \div DayUnits
        rest == x - d * DayUnits
    IN  IF rt = "Timedelta"
        THEN IntStr(d) \o " days " \o (IF d < 0 THEN "+" ELSE "") \o ClockStr(rest, 2)
        ELSE (IF d = 0 THEN ""
              ELSE IntStr(d) \o (IF Abs(d) = 1 THEN " day, " ELSE " days, "))
             \o ClockStr(rest, 1)

\* the calendar date of day d after 1970-01-01 (December 1969 and January 1970)
DateStr(d) ==
    IF d >= 0 THEN "1970-01-" \o PadStr(d + 1, 2) ELSE "1969-12-" \o PadStr(32 + d, 2)

\* x.isoformat() of a datetime in UTC
IsoStr(x) ==
    LET d == x \div DayUnits
    IN  DateStr(d) \o "T" \o ClockStr(x - d * DayUnits, 2) \o "+00:00"

\* str(x)
str(x) ==
    CASE x.k = "int" -> IntStr(x.a \div Scale)
      [] x.k = "float" -> FloatStr(x.a)
      [] x.k = "complex" -> ComplexStr(x.a, x.b)
      [] x.k = "bool" -> IF x.a # 0 THEN "True" ELSE "False"
      [] x.k \in {"str", "Decimal"} -> x.s
      [] x.k \in {"Timedelta", "timedelta"} -> TimedeltaStr(x.k, x.a)
      [] x.k \in {"Timestamp", "datetime"} ->
            LET loc == x.a + x.b * 3600 * Scale
                d == loc \div DayUnits
            IN  DateStr(d) \o " " \o ClockStr(loc - d * DayUnits, 2)
                    \o (IF x.b < 0 THEN "-" ELSE "+") \o PadStr(Abs(x.b), 2) \o ":00"
      [] x.k = "None" -> "None"
      [] x.k = "nan" -> "nan"
      [] x.k = "NA" -> "<NA>"
      [] x.k = "NaT" -> "NaT"

----------------------------------------------------------------------------
(* Text scanning.  The literals recognised are the plain decimal ones (sign, *)
(* digits, point), Python's complex forms, and for the two pandas parsers    *)
(* the encodings this kernel itself renders; other text is a parse failure.  *)

Ch(s, i) == SubSeq(s, i, i)

IsDigit(c) == c \in {"0", "1", "2", "3", "4", "5", "6", "7", "8", "9"}

DigitVal(c) == CHOOSE d \in 0..9 : DigitChar(d) = c

RECURSIVE LStrip(_)
LStrip(s) == IF Len(s) > 0 /\ Ch(s, 1) = " " THEN LStrip(SubSeq(s, 2, Len(s))) ELSE s

RECURSIVE RStrip(_)
RStrip(s) ==
    IF Len(s) > 0 /\ Ch(s, Len(s)) = " " THEN RStrip(SubSeq(s, 1, Len(s) - 1)) ELSE s

\* string.strip()
strip(s) == LStrip(RStrip(s))

\* c.lower() of one character
LowerCh(c) ==
    IF \E i \in 1..26 : Ch("ABCDEFGHIJKLMNOPQRSTUVWXYZ", i) = c
    THEN Ch("abcdefghijklmnopqrstuvwxyz",
            CHOOSE i \in 1..26 : Ch("ABCDEFGHIJKLMNOPQRSTUVWXYZ", i) = c)
    ELSE c

\* string.lower()
RECURSIVE lower(_)
lower(s) == IF s = "" THEN "" ELSE LowerCh(Ch(s, 1)) \o lower(SubSeq(s, 2, Len(s)))

\* the first position at or after i that holds no digit
RECURSIVE DigitsEnd(_, _)
DigitsEnd(s, i) == IF i <= Len(s) /\ IsDigit(Ch(s, i)) THEN DigitsEnd(s, i + 1) ELSE i

\* the number written by the digits s[i..j-1] (0 for none)
RECURSIVE NatVal(_, _, _)
NatVal(s, i, j) == IF j <= i THEN 0 ELSE NatVal(s, i, j - 1) * 10 + DigitVal(Ch(s, j - 1))

\* the digits s[i..j-1] read as a fraction, in units (digits past the grid dropped)
FracVal(s, i, j) ==
    LET w == j - i
    IN  IF w <= Digits THEN NatVal(s, i, j) * (10 ^ (Digits - w))
        ELSE NatVal(s, i, i + Digits)

NoScan == [ok |-> FALSE, val |-> 0, isint |-> FALSE, next |-> 0]

\* an unsigned decimal number at position i: digits s[i..j-1], then either
\* nothing more or a point and the digits s[j+1..k-1]
Decimal(s, i) ==
    LET Point(j, k) ==
            IF j = i /\ k = j + 1 THEN NoScan
            ELSE [ok |-> TRUE, val |-> NatVal(s, i, j) * Scale + FracVal(s, j + 1, k),
                  isint |-> FALSE, next |-> k]
        From(j) ==
            IF j <= Len(s) /\ Ch(s, j) = "." THEN Point(j, DigitsEnd(s, j + 1))
            ELSE IF j = i THEN NoScan
            ELSE [ok |-> TRUE, val |-> NatVal(s, i, j) * Scale, isint |-> TRUE,
                  next |-> j]
    IN  From(DigitsEnd(s, i))

\* a decimal number with an optional sign at position i
Signed(s, i) ==
    LET Negated(d) == IF d.ok THEN [d EXCEPT !.val = -d.val] ELSE d
    IN  IF i <= Len(s) /\ Ch(s, i) = "-" THEN Negated(Decimal(s, i + 1))
        ELSE IF i <= Len(s) /\ Ch(s, i) = "+" THEN Decimal(s, i + 1)
        ELSE Decimal(s, i)

NoParse == [ok |-> FALSE, v |-> None]

Parsed(v) == [ok |-> TRUE, v |-> v]

\* int(string)
ParseInt(string) ==
    LET Literal(t, d) ==
            IF d.ok /\ d.isint /\ d.next = Len(t) + 1
            THEN Parsed(V("int", d.val, 0, ""))
            ELSE NoParse
    IN  Literal(strip(string), Signed(strip(string), 1))

\* float(string)
ParseFloat(string) ==
    LET Literal(t, d) ==
            IF d.ok /\ d.next = Len(t) + 1 THEN Parsed(PyFloat(d.val)) ELSE NoParse
    IN  Literal(strip(string), Signed(strip(string), 1))

\* complex(string): real, imaginary or real+imaginary, optionally in parentheses
ParseComplex(string) ==
    LET \* the imaginary part e after the real part d, and the closing j
        Imag(z, d, e) ==
            IF e.ok /\ e.next = Len(z) /\ Ch(z, Len(z)) \in {"j", "J"}
            THEN Parsed(PyComplex(d.val, e.val))
            ELSE NoParse
        \* z starts with the number d
        Literal(z, d) ==
            IF ~d.ok THEN NoParse
            ELSE IF d.next = Len(z) + 1 THEN Parsed(PyComplex(d.val, 0))
            ELSE IF d.next = Len(z) /\ Ch(z, Len(z)) \in {"j", "J"}
                 THEN Parsed(PyComplex(0, d.val))
            ELSE IF Ch(z, d.next) \in {"+", "-"} THEN Imag(z, d, Signed(z, d.next))
            ELSE NoParse
        \* t without one pair of enclosing parentheses
        Unparen(t) ==
            IF Len(t) >= 2 /\ Ch(t, 1) = "(" /\ Ch(t, Len(t)) = ")"
            THEN strip(SubSeq(t, 2, Len(t) - 1))
            ELSE t
    IN  Literal(Unparen(strip(string)), Signed(Unparen(strip(string)), 1))

\* a clock H:MM:SS[.f] filling s from position i to the end, in units: hours
\* s[i..j-1], ":", minutes s[j+1..j+2], ":", seconds sec
Clock(s, i) ==
    LET Parts(j, sec) ==
            IF /\ j > i /\ j <= Len(s) /\ Ch(s, j) = ":"
               /\ DigitsEnd(s, j + 1) = j + 3 /\ j + 3 <= Len(s) /\ Ch(s, j + 3) = ":"
               /\ sec.ok /\ sec.next = Len(s) + 1 /\ DigitsEnd(s, j + 4) = j + 6
            THEN [ok |-> TRUE,
                  val |-> (NatVal(s, i, j) * 3600 + NatVal(s, j + 1, j + 3) * 60) * Scale
                              + sec.val]
            ELSE [ok |-> FALSE, val |-> 0]
    IN  Parts(DigitsEnd(s, i), Decimal(s, DigitsEnd(s, i) + 4))

\* text t continues with word w at position i
HasAt(t, i, w) == i + Len(w) - 1 <= Len(t) /\ SubSeq(t, i, i + Len(w) - 1) = w

\* pd.to_timedelta(string): "N", "[-]D day[s][,] [[+]H:MM:SS]" or "H:MM:SS"
ParseTimedelta(string) ==
    LET \* the position after an optional character ch at position p
        Skip(t, p, ch) == IF p <= Len(t) /\ Ch(t, p) = ch THEN p + 1 ELSE p
        \* the length of the unit word after the day count d
        DayWord(t, d) ==
            IF ~d.ok THEN 0
            ELSE IF HasAt(t, d.next, " days") THEN 5
            ELSE IF HasAt(t, d.next, " day") THEN 4
            ELSE 0
        \* the clock after "D day[s]" ending at p - 1: an optional comma, a space,
        \* an optional plus sign, H:MM:SS
        DayClock(t, p) ==
            IF Skip(t, Skip(t, p, ","), " ") > p
            THEN Clock(t, Skip(t, Skip(t, Skip(t, p, ","), " "), "+"))
            ELSE [ok |-> FALSE, val |-> 0]
        DaysAndClock(days, c) ==
            IF c.ok THEN Parsed(TimeDeltaV("Timedelta", days * DayUnits + c.val))
            ELSE NoParse
        \* t starts with the number d, followed by a unit word of length w
        Text(t, d, w) ==
            IF ~(d.ok /\ d.isint) THEN NoParse
            \* a bare number counts nanoseconds: below the grid for these inputs
            ELSE IF d.next = Len(t) + 1 THEN Parsed(TimeDeltaV("Timedelta", 0))
            ELSE IF w = 0 THEN NoParse
            ELSE IF d.next + w = Len(t) + 1
                 THEN Parsed(TimeDeltaV("Timedelta", (d.val \div Scale) * DayUnits))
            ELSE DaysAndClock(d.val \div Scale, DayClock(t, d.next + w))
        Literal(t, whole, d) ==
            IF whole.ok THEN Parsed(TimeDeltaV("Timedelta", whole.val))
            ELSE Text(t, d, DayWord(t, d))
    IN  Literal(strip(string), Clock(strip(string), 1), Signed(strip(string), 1))

\* pd.to_datetime(string): "YYYY-MM-DD[(T| )HH:MM:SS[.f][(+|-)HH:00]]" in
\* December 1969 and January 1970; text without an offset is read as UTC
ParseDatetime(string) ==
    LET \* the position of a trailing UTC offset (+|-)HH:00 in t, 0 for none
        OffsetAt(t, n) ==
            IF n >= 17 /\ Ch(t, n - 5) \in {"+", "-"} /\ Ch(t, n - 2) = ":"
               /\ DigitsEnd(t, n - 4) = n - 2 /\ SubSeq(t, n - 1, n) = "00"
            THEN n - 5
            ELSE 0
        \* the offset in hours written at position z
        OffsetHours(t, z) ==
            IF z = 0 THEN 0
            ELSE (IF Ch(t, z) = "-" THEN -1 ELSE 1) * NatVal(t, z + 1, z + 3)
        \* the day d at clock c and UTC offset off
        At(d, c, off) ==
            IF c.ok /\ c.val < DayUnits
            THEN Parsed(DateTimeV("Timestamp",
                                  d * DayUnits + c.val - off * 3600 * Scale, off))
            ELSE NoParse
        \* a date of month `month` with day number `day`, then a clock that ends
        \* before the offset at z
        Text(t, month, day, z) ==
            IF month = 0 \/ DigitsEnd(t, 9) # 11 \/ day \notin 1..31 THEN NoParse
            ELSE IF Len(t) = 10
                 THEN Parsed(DateTimeV("Timestamp",
                                       (IF month = 1 THEN day - 1 ELSE day - 32) * DayUnits,
                                       0))
            ELSE IF Ch(t, 11) \in {" ", "T"}
                 THEN At(IF month = 1 THEN day - 1 ELSE day - 32,
                         Clock(IF z = 0 THEN t ELSE SubSeq(t, 1, z - 1), 12),
                         OffsetHours(t, z))
            ELSE NoParse
        Month(t) ==
            IF HasAt(t, 1, "1970-01-") THEN 1
            ELSE IF HasAt(t, 1, "1969-12-") THEN 12
            ELSE 0
        Literal(t) ==
            Text(t, Month(t), NatVal(t, 9, DigitsEnd(t, 9)), OffsetAt(t, Len(t)))
    IN  Literal(strip(string))

----------------------------------------------------------------------------
(* src/pdtypes/parse.py *)

\* parse_dtype(dtype) for the type named dtype; "TypeError" for an unrecognized one.
\* bool is no integer dtype; np.dtype of an unknown class is the object dtype.
parse_dtype(dtype) ==
    CASE dtype = "int" -> "int"
      [] dtype = "float" -> "float"
      [] dtype = "complex" -> "complex"
      [] dtype = "bool" -> "bool"
      [] dtype \in {"datetime", "Timestamp"} -> "datetime"
      [] dtype \in {"timedelta", "Timedelta"} -> "timedelta"
      [] dtype \in {"object", "Decimal"} -> "object"
      [] dtype = "str" -> "str"
      [] OTHER -> "TypeError"

\* the boolean step of parse_string and its fall-through to the text itself
parse_boolean(string) ==
    LET Token(low) ==
            IF low \in {"t", "true"} THEN PyBool(TRUE)
            ELSE IF low \in {"f", "false"} THEN PyBool(FALSE)
            ELSE PyStr(string)
    IN  Token(lower(strip(string)))

\* a variant of Cascade that tries the float literal before the integer literal
CascadeFloatFirst(int, float, complex, timedelta, datetime, boolean) ==
    IF float.ok THEN float.v
    ELSE IF int.ok THEN int.v
    ELSE IF complex.ok THEN complex.v
    ELSE IF timedelta.ok THEN timedelta.v
    ELSE IF datetime.ok THEN datetime.v
    ELSE boolean

\* the first parse that succeeds wins
Cascade(int, float, complex, timedelta, datetime, boolean) ==
    IF int.ok THEN int.v
    ELSE IF float.ok THEN float.v
    ELSE IF complex.ok THEN complex.v
    ELSE IF timedelta.ok THEN timedelta.v
    ELSE IF datetime.ok THEN datetime.v
    ELSE boolean

\* the body of parse_string
parse_string(string) ==
    Cascade(ParseInt(string), ParseFloat(string), ParseComplex(string),
            ParseTimedelta(string), ParseDatetime(string), parse_boolean(string))

----------------------------------------------------------------------------
(* Keyword arguments.  A call carries the set of keywords it passes and     *)
(* their values; a parameter that is not passed takes the callee's default. *)

OptionNames == {"force", "round", "ftol", "format", "return_type"}

Kw(force, round, ftol, format, return_type) ==
    [force |-> force, round |-> round, ftol |-> ftol, format |-> format,
     return_type |-> return_type]

Args(passed, kw) == [passed |-> passed, kw |-> kw]

\* the rules of apply.py by the kind they convert from, under the names their
\* def statements bind
Rules ==
    [int |-> {"integer_to_float", "integer_to_complex", "integer_to_string",
              "integer_to_boolean", "integer_to_datetime", "integer_to_timedelta"},
     float |-> {"float_to_integer", "float_to_complex", "float_to_string",
                "_float_to_boolean", "_float_to_datetime", "_float_to_timedelta"},
     complex |-> {"_complex_to_integer", "_complex_to_float", "_complex_to_string",
                  "_complex_to_boolean", "_complex_to_datetime",
                  "_complex_to_timedelta"},
     str |-> {"_string_to_integer", "_string_to_float", "_string_to_complex",
              "_string_to_boolean", "_string_to_datetime", "_string_to_timedelta"},
     bool |-> {"_boolean_to_integer", "_boolean_to_float", "_boolean_to_complex",
               "_boolean_to_string", "_boolean_to_datetime", "_boolean_to_timedelta"},
     datetime |-> {"_datetime_to_integer", "_datetime_to_float", "_datetime_to_complex",
                   "_datetime_to_string", "_datetime_to_boolean",
                   "_datetime_to_timedelta"},
     timedelta |-> {"_timedelta_to_integer", "_timedelta_to_float",
                    "_timedelta_to_complex", "_timedelta_to_string",
                    "_timedelta_to_boolean", "_timedelta_to_datetime"}]

RuleNames == UNION {Rules[k] : k \in DOMAIN Rules}

EntryPoints ==
    {"to_integer", "to_float", "to_complex", "to_boolean", "to_string",
     "to_datetime", "to_timedelta"}

\* every name bound at module level in apply.py
ModuleNames == RuleNames \cup EntryPoints \cup {"parse_dtype", "parse_string", "to_utc"}

\* the builtin and pandas types a return_type can name
TypeNames ==
    {"int", "float", "complex", "bool", "str", "Timestamp", "datetime", "Timedelta",
     "timedelta"}

\* the keyword parameters each function declares
Params(fn) ==
    CASE fn \in {"float_to_integer", "_complex_to_integer", "_datetime_to_integer",
                 "_timedelta_to_integer"} -> {"force", "round", "ftol", "return_type"}
      [] fn \in {"_float_to_boolean", "_complex_to_float", "_complex_to_boolean",
                 "_complex_to_datetime", "_complex_to_timedelta",
                 "_datetime_to_boolean", "_timedelta_to_boolean"} ->
            {"force", "ftol", "return_type"}
      [] fn = "integer_to_boolean" -> {"force", "return_type"}
      [] fn = "_datetime_to_string" -> {"format", "return_type"}
      [] fn \in {"_string_to_integer", "to_integer"} -> OptionNames
      [] fn \in {"_string_to_float", "_string_to_boolean", "_string_to_datetime",
                 "to_float", "to_boolean", "to_datetime"} ->
            {"force", "ftol", "format", "return_type"}
      [] fn \in {"_string_to_complex", "to_complex", "to_string"} ->
            {"format", "return_type"}
      [] fn = "_string_to_timedelta" -> {"force", "format", "return_type"}
      [] fn = "to_timedelta" -> {"force", "ftol", "return_type"}
      [] fn = "parse_string" -> {}
      [] OTHER -> {"return_type"}

\* the functions of apply.py by the kind they convert into
Targets ==
    [int |-> {"float_to_integer", "_complex_to_integer", "_string_to_integer",
              "_boolean_to_integer", "_datetime_to_integer", "_timedelta_to_integer",
              "to_integer"},
     float |-> {"integer_to_float", "_complex_to_float", "_string_to_float",
                "_boolean_to_float", "_datetime_to_float", "_timedelta_to_float",
                "to_float"},
     complex |-> {"integer_to_complex", "float_to_complex", "_string_to_complex",
                  "_boolean_to_complex", "_datetime_to_complex",
                  "_timedelta_to_complex", "to_complex"},
     str |-> {"integer_to_string", "float_to_string", "_complex_to_string",
              "_boolean_to_string", "_datetime_to_string", "_timedelta_to_string",
              "to_string"},
     bool |-> {"integer_to_boolean", "_float_to_boolean", "_complex_to_boolean",
               "_string_to_boolean", "_datetime_to_boolean", "_timedelta_to_boolean",
               "to_boolean"},
     datetime |-> {"integer_to_datetime", "_float_to_datetime", "_complex_to_datetime",
                   "_string_to_datetime", "_boolean_to_datetime",
                   "_timedelta_to_datetime", "to_datetime"},
     timedelta |-> {"integer_to_timedelta", "_float_to_timedelta",
                    "_complex_to_timedelta", "_string_to_timedelta",
                    "_boolean_to_timedelta", "_datetime_to_timedelta",
                    "to_timedelta"}]

\* the default of the return_type parameter
DefaultReturnType(fn) ==
    CASE fn = "_string_to_complex" -> "float"
      [] fn \in Targets.int -> "int"
      [] fn \in Targets.float -> "float"
      [] fn \in Targets.complex -> "complex"
      [] fn \in Targets.str -> "str"
      [] fn \in Targets.bool -> "bool"
      [] fn \in Targets.datetime -> "Timestamp"
      [] fn \in Targets.timedelta -> "Timedelta"
      [] OTHER -> "str"

\* the defaults of a function's keyword parameters
Default(fn) ==
    Kw(FALSE, fn # "to_integer", DefaultFtol, "None", DefaultReturnType(fn))

\* the value parameter p has in a call of fn with arguments c
Arg(fn, c, p) == IF p \in c.passed THEN c.kw[p] ELSE Default(fn)[p]

\* a call passes only keywords the callee declares (a TypeError otherwise)
Accepts(fn, c) == c.passed \subseteq Params(fn)

\* functools.partial(fn, **kws) called inside caller: the caller's own values
Partial(caller, c, kws) ==
    Args(kws, Kw(Arg(caller, c, "force"), Arg(caller, c, "round"), Arg(caller, c, "ftol"),
                 Arg(caller, c, "format"), Arg(caller, c, "return_type")))

----------------------------------------------------------------------------
(* Constructors *)

\* a call by name (defined below, after the functions it can reach)
RECURSIVE invoke(_, _, _)

\* the outcome of a constructor that parses text
FromText(p) == IF p.ok THEN Return(p.v) ELSE Raise("ValueError", "invalid literal")

\* return_type(x) for the builtin and pandas types
\* the float nearest to the integer of n units (int to double, round half to
\* even): exact up to FloatExact, on a grid of 2 above it (up to twice that)
as_double(n) ==
    IF Abs(n) \div Scale <= FloatExact THEN n
    ELSE CASE (n \div Scale) % 4 = 1 -> n - Scale
           [] (n \div Scale) % 4 = 3 -> n + Scale
           [] OTHER -> n

Construct(rt, x) ==
    CASE rt = "int" ->
            IF x.k \in {"int", "bool"} THEN Return(V("int", x.a, 0, ""))
            ELSE IF x.k \in {"float", "Decimal"} THEN Return(V("int", int_trunc(x.a), 0, ""))
            ELSE IF x.k = "str" THEN invoke("int", x, Args({}, Default("int")))
            ELSE Raise("TypeError", "int() argument")
      [] rt = "float" ->
            IF x.k \in {"int", "bool"} THEN Return(PyFloat(as_double(x.a)))
            ELSE IF x.k = "float" THEN Return(x)
            ELSE IF x.k = "Decimal" THEN Return(PyFloat(x.a))
            ELSE IF x.k = "str" THEN invoke("float", x, Args({}, Default("float")))
            ELSE Raise("TypeError", "float() argument")
      [] rt = "complex" ->
            IF x.k \in {"int", "bool"} THEN Return(PyComplex(as_double(x.a), 0))
            ELSE IF IsNumber(x) \/ x.k = "Decimal" THEN Return(PyComplex(x.a, x.b))
            ELSE IF x.k = "str" THEN invoke("complex", x, Args({}, Default("complex")))
            ELSE Raise("TypeError", "complex() argument")
      [] rt = "bool" ->
            IF x.k = "str" THEN Return(PyBool(x.s # ""))
            ELSE IF x.k \in {"Timestamp", "datetime"} THEN Return(PyBool(TRUE))
            ELSE Return(PyBool(x.a # 0 \/ x.b # 0))
      [] rt = "str" -> Return(PyStr(str(x)))
      [] rt = "Timestamp" ->
            IF x.k \in {"Timestamp", "datetime"} THEN Return(DateTimeV("Timestamp", x.a, x.b))
            ELSE Raise("TypeError", "Timestamp() argument")
      [] OTHER -> Raise("TypeError", "constructor argument")

\* return_type.fromtimestamp(x, tz=timezone.utc) for a real number x
fromtimestamp(rt, x) ==
    IF rt \in {"Timestamp", "datetime"} THEN Return(DateTimeV(rt, x, 0))
    ELSE Raise("AttributeError", "fromtimestamp")

\* return_type(seconds=x) for a real number x
from_seconds(rt, x) ==
    IF rt \in {"Timedelta", "timedelta"} THEN Return(TimeDeltaV(rt, x))
    ELSE Raise("TypeError", "seconds")

\* to_utc(element): the same instant at UTC offset zero
to_utc(element) == DateTimeV(element.k, element.a, 0)

\* x == y
py_eq(x, y) ==
    IF IsNumber(x) /\ IsNumber(y) THEN x.a = y.a /\ x.b = y.b ELSE x = y

\* abs(x - y) < ftol for two numbers
close(x, y, ftol) == abs_lt(x.a - y.a, x.b - y.b, ftol)

\* a variant of Gate that pays no attention to force
GateUnforced(cand, value, force, ftol, msg) ==
    IF cand.st # "ok" THEN cand
    ELSE IF ~IsNumber(cand.v) THEN Raise("TypeError", "unsupported operand")
    ELSE IF close(cand.v, value, ftol) THEN cand
    ELSE Raise("ValueError", msg)

\* the closing gate of the narrowing rules: `if force or abs(result - value) < ftol`
\* on a candidate that return_type produced (an outcome), else the rule's ValueError
Gate(cand, value, force, ftol, msg) ==
    IF cand.st # "ok" THEN cand
    ELSE IF force THEN cand
    ELSE IF ~IsNumber(cand.v) THEN Raise("TypeError", "unsupported operand")
    ELSE IF close(cand.v, value, ftol) THEN cand
    ELSE Raise("ValueError", msg)

\* `if result == element or force` on a candidate, else the rule's ValueError
ExactGate(cand, value, force, msg) ==
    IF cand.st # "ok" THEN cand
    ELSE IF py_eq(cand.v, value) \/ force THEN cand
    ELSE Raise("ValueError", msg)

\* `if abs(result - value) < ftol or force` on a candidate, else the ValueError
CloseGate(cand, value, force, ftol, msg) ==
    IF cand.st # "ok" THEN cand
    ELSE IF ~IsNumber(cand.v) THEN Raise("TypeError", "unsupported operand")
    ELSE IF close(cand.v, value, ftol) \/ force THEN cand
    ELSE Raise("ValueError", msg)

\* the body shared by the rules into int: the nearest integer when round is set or
\* it lies within ftol, else return_type(value.real), and then the gate
ToIntegerBody(fn, value, c, msg) ==
    LET rt == Arg(fn, c, "return_type")
        ftol == Arg(fn, c, "ftol")
        rounded == PyFloat(np_round(value.a))
        cand == IF Arg(fn, c, "round") \/ close(rounded, value, ftol)
                THEN Construct(rt, rounded)
                ELSE Construct(rt, PyFloat(value.a))
    IN  Gate(cand, value, Arg(fn, c, "force"), ftol, msg)

\* the body shared by _float_to_boolean and _complex_to_boolean
ToBooleanBody(fn, value, c, msg) ==
    LET rt == Arg(fn, c, "return_type")
        ftol == Arg(fn, c, "ftol")
        rounded == PyFloat(np_round(value.a))
        cand == IF close(rounded, value, ftol)
                THEN Construct(rt, rounded)
                ELSE Construct(rt, PyFloat(value.a))
    IN  Gate(cand, value, Arg(fn, c, "force"), ftol, msg)

----------------------------------------------------------------------------
(* The conversion rules of apply.py, lines 18-661 (string rules further down) *)

integer_to_float(element, c) ==
    IF isnull(element) THEN Return(np_nan)
    ELSE Construct(Arg("integer_to_float", c, "return_type"), element)

integer_to_complex(element, c) ==
    IF isnull(element) THEN Return(np_nan)
    ELSE Construct(Arg("integer_to_complex", c, "return_type"), element)

integer_to_string(element, c) ==
    IF isnull(element) THEN Return(None)
    ELSE Construct(Arg("integer_to_string", c, "return_type"), element)

integer_to_boolean(element, c) ==
    IF isnull(element) THEN Return(pd_NA)
    ELSE ExactGate(Construct(Arg("integer_to_boolean", c, "return_type"), element),
                   element, Arg("integer_to_boolean", c, "force"),
                   "int to bool without losing information")

integer_to_datetime(element, c) ==
    IF isnull(element) THEN Return(pd_NaT)
    ELSE fromtimestamp(Arg("integer_to_datetime", c, "return_type"), element.a)

integer_to_timedelta(element, c) ==
    IF isnull(element) THEN Return(pd_NaT)
    ELSE from_seconds(Arg("integer_to_timedelta", c, "return_type"), element.a)

\* float_to_integer that, when round is not set, truncates without looking
\* whether the nearest integer is within ftol
float_to_integer_truncating(element, c) ==
    IF isnull(element) THEN Return(np_nan)
    ELSE Gate(IF Arg("float_to_integer", c, "round")
              THEN Construct(Arg("float_to_integer", c, "return_type"),
                             PyFloat(np_round(element.a)))
              ELSE Construct(Arg("float_to_integer", c, "return_type"), element),
              element, Arg("float_to_integer", c, "force"),
              Arg("float_to_integer", c, "ftol"),
              "float to int without losing information")

float_to_integer(element, c) ==
    IF isnull(element) THEN Return(np_nan)
    ELSE ToIntegerBody("float_to_integer", element, c,
                       "float to int without losing information")

\* float_to_complex dropping the fraction on its way
float_to_complex_truncated(element, c) ==
    IF isnull(element) THEN Return(np_nan)
    ELSE Construct(Arg("float_to_complex", c, "return_type"), PyFloat(int_trunc(element.a)))

float_to_complex(element, c) ==
    IF isnull(element) THEN Return(np_nan)
    ELSE Construct(Arg("float_to_complex", c, "return_type"), element)

\* float_to_string without its test for a missing value
float_to_string_untested(element, c) ==
    Construct(Arg("float_to_string", c, "return_type"), element)

float_to_string(element, c) ==
    IF isnull(element) THEN Return(None)
    ELSE Construct(Arg("float_to_string", c, "return_type"), element)

\* _float_to_boolean taking the truth value of the element itself, unsnapped
_float_to_boolean_unsnapped(element, c) ==
    IF isnull(element) THEN Return(pd_NA)
    ELSE CloseGate(Construct(Arg("_float_to_boolean", c, "return_type"), element),
                   element, Arg("_float_to_boolean", c, "force"),
                   Arg("_float_to_boolean", c, "ftol"),
                   "float to bool without losing information")

_float_to_boolean(element, c) ==
    IF isnull(element) THEN Return(pd_NA)
    ELSE ToBooleanBody("_float_to_boolean", element, c,
                       "float to bool without losing information")

_float_to_datetime(element, c) ==
    IF isnull(element) THEN Return(pd_NaT)
    ELSE fromtimestamp(Arg("_float_to_datetime", c, "return_type"), element.a)

_float_to_timedelta(element, c) ==
    IF isnull(element) THEN Return(pd_NaT)
    ELSE from_seconds(Arg("_float_to_timedelta", c, "return_type"), element.a)

\* _complex_to_integer comparing its candidate with the real part alone
_complex_to_integer_real_only(element, c) ==
    IF isnull(element) THEN Return(np_nan)
    ELSE ToIntegerBody("_complex_to_integer", PyFloat(element.a), c,
                       "complex to int without losing information")

_complex_to_integer(element, c) ==
    IF isnull(element) THEN Return(np_nan)
    ELSE ToIntegerBody("_complex_to_integer", element, c,
                       "complex to int without losing information")

_complex_to_float(element, c) ==
    IF isnull(element) THEN Return(np_nan)
    ELSE IF Arg("_complex_to_float", c, "force")
            \/ abs_lt(element.b, 0, Arg("_complex_to_float", c, "ftol"))
         THEN Construct(Arg("_complex_to_float", c, "return_type"), PyFloat(element.a))
    ELSE Raise("ValueError", "complex to float without losing information")

_complex_to_string(element, c) ==
    IF isnull(element) THEN Return(pd_NA)
    ELSE Construct(Arg("_complex_to_string", c, "return_type"), element)

_complex_to_boolean(element, c) ==
    IF isnull(element) THEN Return(pd_NA)
    ELSE ToBooleanBody("_complex_to_boolean", element, c,
                       "complex to bool without losing information")

_complex_to_datetime(element, c) ==
    IF isnull(element) THEN Return(pd_NaT)
    ELSE IF Arg("_complex_to_datetime", c, "force")
            \/ abs_lt(element.b, 0, Arg("_complex_to_datetime", c, "ftol"))
         THEN fromtimestamp(Arg("_complex_to_datetime", c, "return_type"), element.a)
    ELSE Raise("ValueError", "complex to datetime without losing information")

_complex_to_timedelta(element, c) ==
    IF isnull(element) THEN Return(pd_NaT)
    ELSE IF Arg("_complex_to_timedelta", c, "force")
            \/ abs_lt(element.b, 0, Arg("_complex_to_timedelta", c, "ftol"))
         THEN from_seconds(Arg("_complex_to_timedelta", c, "return_type"), element.a)
    ELSE Raise("ValueError", "complex to timedelta without losing information")

_boolean_to_integer(element, c) ==
    IF isnull(element) THEN Return(np_nan)
    ELSE Construct(Arg("_boolean_to_integer", c, "return_type"), element)

_boolean_to_float(element, c) ==
    IF isnull(element) THEN Return(np_nan)
    ELSE Construct(Arg("_boolean_to_float", c, "return_type"), element)

_boolean_to_complex(element, c) ==
    IF isnull(element) THEN Return(np_nan)
    ELSE Construct(Arg("_boolean_to_complex", c, "return_type"), element)

_boolean_to_string(element, c) ==
    IF isnull(element) THEN Return(pd_NA)
    ELSE Construct(Arg("_boolean_to_string", c, "return_type"), element)

_boolean_to_datetime(element, c) ==
    IF isnull(element) THEN Return(pd_NaT)
    ELSE fromtimestamp(Arg("_boolean_to_datetime", c, "return_type"), element.a)

_boolean_to_timedelta(element, c) ==
    IF isnull(element) THEN Return(pd_NaT)
    ELSE from_seconds(Arg("_boolean_to_timedelta", c, "return_type"), element.a)

_datetime_to_integer(element, c) ==
    IF isnull(element) THEN Return(np_nan)
    ELSE ToIntegerBody("_datetime_to_integer", PyFloat(to_utc(element).a), c,
                       "datetime to int without losing information")

_datetime_to_float(element, c) ==
    IF isnull(element) THEN Return(np_nan)
    ELSE Construct(Arg("_datetime_to_float", c, "return_type"), PyFloat(to_utc(element).a))

_datetime_to_complex(element, c) ==
    IF isnull(element) THEN Return(np_nan)
    ELSE Construct(Arg("_datetime_to_complex", c, "return_type"), PyFloat(to_utc(element).a))

\* strftime for the one pattern the inputs use, "%Y"
strftime(x, format) == IF x.a >= 0 THEN "1970" ELSE "1969"

_datetime_to_string(element, c) ==
    IF isnull(element) THEN Return(pd_NA)
    ELSE IF Arg("_datetime_to_string", c, "format") = "None"
         THEN Construct(Arg("_datetime_to_string", c, "return_type"),
                        PyStr(IsoStr(to_utc(element).a)))
    ELSE Construct(Arg("_datetime_to_string", c, "return_type"),
                   PyStr(strftime(to_utc(element), Arg("_datetime_to_string", c, "format"))))

_datetime_to_boolean(element, c) ==
    IF isnull(element) THEN Return(pd_NA)
    ELSE CloseGate(Construct(Arg("_datetime_to_boolean", c, "return_type"),
                             PyFloat(to_utc(element).a)),
                   PyFloat(to_utc(element).a), Arg("_datetime_to_boolean", c, "force"),
                   Arg("_datetime_to_boolean", c, "ftol"),
                   "datetime to bool without losing information")

\* _datetime_to_timedelta reading the wall clock of the element's own offset
_datetime_to_timedelta_local(element, c) ==
    IF isnull(element) THEN Return(pd_NaT)
    ELSE from_seconds(Arg("_datetime_to_timedelta", c, "return_type"),
                      element.a + element.b * 3600 * Scale)

_datetime_to_timedelta(element, c) ==
    IF isnull(element) THEN Return(pd_NaT)
    ELSE from_seconds(Arg("_datetime_to_timedelta", c, "return_type"), to_utc(element).a)

_timedelta_to_integer(element, c) ==
    IF isnull(element) THEN Return(np_nan)
    ELSE ToIntegerBody("_timedelta_to_integer", PyFloat(element.a), c,
                       "timedelta to int without losing information")

_timedelta_to_float(element, c) ==
    IF isnull(element) THEN Return(np_nan)
    ELSE Construct(Arg("_timedelta_to_float", c, "return_type"), PyFloat(element.a))

_timedelta_to_complex(element, c) ==
    IF isnull(element) THEN Return(np_nan)
    ELSE Construct(Arg("_timedelta_to_complex", c, "return_type"), PyFloat(element.a))

_timedelta_to_string(element, c) ==
    IF isnull(element) THEN Return(pd_NA)
    ELSE Construct(Arg("_timedelta_to_string", c, "return_type"), element)

_timedelta_to_boolean(element, c) ==
    IF isnull(element) THEN Return(pd_NA)
    ELSE CloseGate(Construct(Arg("_timedelta_to_boolean", c, "return_type"),
                             PyFloat(element.a)),
                   PyFloat(element.a), Arg("_timedelta_to_boolean", c, "force"),
                   Arg("_timedelta_to_boolean", c, "ftol"), "timedelta to bool")

_timedelta_to_datetime(element, c) ==
    IF isnull(element) THEN Return(pd_NaT)
    ELSE fromtimestamp(Arg("_timedelta_to_datetime", c, "return_type"), element.a)

----------------------------------------------------------------------------
(* Lookup tables.  Each conversion_map is a dict literal evaluated on every   *)
(* call: its entries are built in source order, and an entry that names a     *)
(* function the module does not define raises NameError right there.          *)

P(ref, kws) == [ref |-> ref, kws |-> kws, err |-> ""]

Lam == [ref |-> "lambda", kws |-> {}, err |-> ""]

\* the keys of the dict literal of fn, in source order
map_keys(fn) ==
    CASE fn \in EntryPoints \ {"to_datetime", "to_timedelta"} ->
            <<"int", "float", "complex", "str", "bool", "datetime", "timedelta", "object">>
      [] fn \in {"to_datetime", "to_timedelta"} ->
            <<"int", "float", "complex", "str", "bool", "datetime", "timedelta">>
      [] OTHER -> <<"int", "float", "complex", "bool", "datetime", "timedelta">>

\* the dict literal of fn: key -> the callable stored under it
conversion_map(fn) ==
    CASE fn = "to_integer" ->
            [int |-> Lam,
             float |-> P("_float_to_integer",
                 {"round", "force", "ftol", "return_type"}),
             complex |-> P("_complex_to_integer",
                 {"round", "force", "ftol", "return_type"}),
             str |-> P("_string_to_integer",
                 {"round", "force", "ftol", "format", "return_type"}),
             bool |-> P("_boolean_to_integer", {"return_type"}),
             datetime |-> P("_datetime_to_integer",
                 {"round", "force", "ftol", "return_type"}),
             timedelta |-> P("_timedelta_to_integer",
                 {"round", "force", "ftol", "return_type"}),
             object |-> Lam]
      [] fn = "to_float" ->
            [int |-> P("_integer_to_float", {"return_type"}),
             float |-> Lam,
             complex |-> P("_complex_to_float", {"force", "ftol", "return_type"}),
             str |-> P("_string_to_float", {"force", "ftol", "format", "return_type"}),
             bool |-> P("_boolean_to_float", {"return_type"}),
             datetime |-> P("_datetime_to_float", {"return_type"}),
             timedelta |-> P("_timedelta_to_float", {"return_type"}),
             object |-> Lam]
      [] fn = "to_complex" ->
            [int |-> P("_integer_to_complex", {"return_type"}),
             float |-> P("_float_to_complex", {"return_type"}),
             complex |-> Lam,
             str |-> P("_string_to_complex", {"format", "return_type"}),
             bool |-> P("_boolean_to_complex", {"return_type"}),
             datetime |-> P("_datetime_to_complex", {"return_type"}),
             timedelta |-> P("_timedelta_to_complex", {"return_type"}),
             object |-> Lam]
      [] fn = "to_boolean" ->
            [int |-> P("_integer_to_boolean", {"force", "ftol", "return_type"}),
             float |-> P("_float_to_boolean", {"force", "ftol", "return_type"}),
             complex |-> P("_complex_to_boolean", {"force", "ftol", "return_type"}),
             str |-> P("_string_to_boolean",
                 {"force", "ftol", "format", "return_type"}),
             bool |-> Lam,
             datetime |-> P("_datetime_to_boolean", {"force", "ftol", "return_type"}),
             timedelta |-> P("_timedelta_to_boolean", {"force", "ftol", "return_type"}),
             object |-> Lam]
      [] fn = "to_string" ->
            [int |-> P("_integer_to_string", {"return_type"}),
             float |-> P("_float_to_string", {"return_type"}),
             complex |-> P("_complex_to_string", {"return_type"}),
             str |-> Lam,
             bool |-> P("_boolean_to_string", {"return_type"}),
             datetime |-> P("_datetime_to_string", {"format", "return_type"}),
             timedelta |-> P("_timedelta_to_string", {"return_type"}),
             object |-> Lam]
      [] fn = "to_datetime" ->
            [int |-> P("_integer_to_datetime", {"return_type"}),
             float |-> P("_float_to_datetime", {"return_type"}),
             complex |-> P("_complex_to_datetime", {"force", "ftol", "return_type"}),
             str |-> P("_string_to_datetime",
                 {"force", "ftol", "format", "return_type"}),
             bool |-> P("_boolean_to_datetime", {"return_type"}),
             datetime |-> Lam,
             timedelta |-> P("_timedelta_to_datetime", {"return_type"})]
      [] fn = "to_timedelta" ->
            [int |-> P("_integer_to_timedelta", {"return_type"}),
             float |-> P("_float_to_timedelta", {"return_type"}),
             complex |-> P("_complex_to_timedelta", {"force", "ftol", "return_type"}),
             str |-> P("_string_to_timedelta", {"force", "ftol", "return_type"}),
             bool |-> P("_boolean_to_timedelta", {"return_type"}),
             datetime |-> P("_datetime_to_timedelta", {"return_type"}),
             timedelta |-> Lam]
      [] fn = "_string_to_integer" ->
            [int |-> Lam,
             float |-> P("_float_to_integer",
                 {"round", "force", "ftol", "return_type"}),
             complex |-> P("_complex_to_integer",
                 {"round", "force", "ftol", "return_type"}),
             bool |-> P("_boolean_to_integer", {"return_type"}),
             datetime |-> P("_datetime_to_integer",
                 {"round", "force", "ftol", "return_type"}),
             timedelta |-> P("_timedelta_to_integer",
                 {"round", "force", "ftol", "return_type"})]
      [] fn = "_string_to_float" ->
            [int |-> P("_integer_to_float", {"return_type"}),
             float |-> Lam,
             complex |-> P("_complex_to_float", {"force", "ftol", "return_type"}),
             bool |-> P("_boolean_to_float", {"return_type"}),
             datetime |-> P("_datetime_to_float", {"return_type"}),
             timedelta |-> P("_timedelta_to_float", {"return_type"})]
      [] fn = "_string_to_complex" ->
            [int |-> P("_integer_to_complex", {"return_type"}),
             float |-> P("_float_to_complex", {"return_type"}),
             complex |-> Lam,
             bool |-> P("_boolean_to_complex", {"return_type"}),
             datetime |-> P("_datetime_to_complex", {"return_type"}),
             timedelta |-> P("_timedelta_to_complex", {"return_type"})]
      [] fn = "_string_to_boolean" ->
            [int |-> P("_integer_to_boolean", {"force", "return_type"}),
             float |-> P("_float_to_boolean", {"force", "ftol", "return_type"}),
             complex |-> P("_complex_to_boolean", {"force", "ftol", "return_type"}),
             bool |-> Lam,
             datetime |-> P("_datetime_to_boolean", {"force", "ftol", "return_type"}),
             timedelta |-> P("_timedelta_to_boolean", {"force", "ftol", "return_type"})]
      [] fn = "_string_to_datetime" ->
            [int |-> P("_integer_to_datetime", {"return_type"}),
             float |-> P("_float_to_datetime", {"return_type"}),
             complex |-> P("_complex_to_datetime", {"force", "ftol", "return_type"}),
             \* partial(_boolean_to_datetime, return_type(return_type)): the
             \* constructor is called on a class while the dict is built
             bool |-> [ref |-> "_boolean_to_datetime",
             kws |-> {},
             err |-> "TypeError"],
             datetime |-> Lam,
             timedelta |-> P("_timedelta_to_datetime", {"return_type"})]
      [] fn = "_string_to_timedelta" ->
            [int |-> P("_integer_to_timedelta", {"return_type"}),
             float |-> P("_float_to_timedelta", {"return_type"}),
             complex |-> P("_complex_to_timedelta", {"force", "return_type"}),
             bool |-> P("_boolean_to_timedelta", {"return_type"}),
             datetime |-> P("_datetime_to_timedelta", {"return_type"}),
             timedelta |-> Lam]

\* what evaluating entry i of fn's dict literal raises ("" when it builds): a
\* name the module does not define is a NameError
entry_error(fn, i) ==
    LET Error(e) ==
            IF e.ref # "lambda" /\ e.ref \notin ModuleNames THEN "NameError" ELSE e.err
    IN  Error(conversion_map(fn)[map_keys(fn)[i]])

\* the entries from the i-th on are evaluated in source order, and the first one
\* that raises ends the evaluation ("" when all of them build)
RECURSIVE build_from(_, _)
build_from(fn, i) ==
    IF i > Len(map_keys(fn)) THEN ""
    ELSE IF entry_error(fn, i) # "" THEN entry_error(fn, i)
    ELSE build_from(fn, i + 1)

\* what evaluating fn's dict literal raises ("" when it builds)
build_error(fn) == build_from(fn, 1)

\* `except (KeyError, ValueError): raise ValueError(err_msg)` around an outcome
reraise(out, msg) ==
    IF out.st = "raise" /\ out.exc \in {"KeyError", "ValueError"}
    THEN Raise("ValueError", msg)
    ELSE out

----------------------------------------------------------------------------
(* The string rules, apply.py lines 250-454 *)

\* the lambda a string rule stores under the key of its own target kind
string_lambda(fn, element, x, c) ==
    CASE fn = "_string_to_datetime" ->
            IF Arg(fn, c, "return_type") = "datetime" THEN Return(x)
            ELSE Construct(Arg(fn, c, "return_type"), x)
      \* lambda x: return_type(seconds=element.total_seconds()), element a str
      [] fn = "_string_to_timedelta" -> Raise("AttributeError", "total_seconds")
      [] OTHER -> Construct(Arg(fn, c, "return_type"), x)

\* the part of a string rule after its null check: build the dict (or fail with
\* err), parse the text, classify the parsed value, look the rule up, call it
string_dispatch(fn, element, c, msg) ==
    LET Call(parsed, m, key) ==
            IF key \notin DOMAIN m THEN Raise("KeyError", key)
            ELSE IF m[key].ref = "lambda" THEN string_lambda(fn, element, parsed, c)
            ELSE invoke(m[key].ref, parsed, Partial(fn, c, m[key].kws))
        \* _string_to_integer classifies type(parsed); the others pass the parsed
        \* value itself to parse_dtype, which recognises no instance as a dtype
        Kind(parsed) ==
            IF fn = "_string_to_integer" THEN parse_dtype(parsed.k)
            ELSE parse_dtype("instance")
        \* parsed: the outcome of parse_string(element, format=format)
        Steps(err, parsed) ==
            IF err # "" THEN Raise(err, "conversion_map")
            ELSE IF parsed.st # "ok" THEN parsed
            ELSE IF Kind(parsed.v) = "TypeError"
                 THEN Raise("TypeError", "unrecognized dtype")
            ELSE reraise(Call(parsed.v, conversion_map(fn), Kind(parsed.v)), msg)
    IN  Steps(build_error(fn), invoke("parse_string", element, Args({"format"}, c.kw)))

_string_to_integer(element, c) ==
    IF isnull(element) THEN Return(np_nan)
    ELSE string_dispatch("_string_to_integer", element, c,
                         "str to int without losing information")

_string_to_float(element, c) ==
    IF isnull(element) THEN Return(np_nan)
    ELSE string_dispatch("_string_to_float", element, c, "str to float")

_string_to_complex(element, c) ==
    IF isnull(element) THEN Return(np_nan)
    ELSE string_dispatch("_string_to_complex", element, c, "str to complex")

_string_to_boolean(element, c) ==
    IF isnull(element) THEN Return(pd_NA)
    ELSE string_dispatch("_string_to_boolean", element, c, "str to bool")

_string_to_datetime(element, c) ==
    IF isnull(element) THEN Return(pd_NaT)
    ELSE string_dispatch("_string_to_datetime", element, c, "str to datetime")

_string_to_timedelta(element, c) ==
    IF isnull(element) THEN Return(pd_NaT)
    ELSE string_dispatch("_string_to_timedelta", element, c, "str to timedelta")


----------------------------------------------------------------------------
(* The entry points, apply.py lines 664-932: the decorated functions' bodies *)

\* the lambdas an entry point stores under its own kind and under object
entry_lambda(fn, key, element, x, c) ==
    LET \* the builtin type the object lambda applies first
        Builtin ==
            CASE fn = "to_integer" -> "int"
              [] fn = "to_float" -> "float"
              [] fn = "to_complex" -> "complex"
              [] fn = "to_boolean" -> "bool"
              [] OTHER -> "str"
        Compose(rt, inner) == IF inner.st = "ok" THEN Construct(rt, inner.v) ELSE inner
    IN  CASE fn = "to_datetime" -> fromtimestamp(Arg(fn, c, "return_type"), to_utc(x).a)
          [] fn = "to_timedelta" -> from_seconds(Arg(fn, c, "return_type"), x.a)
          [] key = "object" -> Compose(Arg(fn, c, "return_type"), Construct(Builtin, x))
          \* to_integer: lambda x: return_type(element)
          [] OTHER -> Construct(Arg(fn, c, "return_type"), x)

\* the call of the callable found under key in the dict m of an entry point
entry_call(fn, element, c, m, key) ==
    IF key \notin DOMAIN m THEN Raise("KeyError", key)
    ELSE IF m[key].ref = "lambda" THEN entry_lambda(fn, key, element, element, c)
    ELSE invoke(m[key].ref, element, Partial(fn, c, m[key].kws))

\* an entry point once its dict is built (or not: err): classify the element,
\* look the rule up and call it
entry_steps(fn, element, c, msg, err, from_type) ==
    IF err # "" THEN Raise(err, "conversion_map")
    ELSE IF from_type = "TypeError" THEN Raise("TypeError", "unrecognized dtype")
    ELSE reraise(entry_call(fn, element, c, conversion_map(fn), from_type), msg)

\* the part of an entry point after its null check
entry_dispatch(fn, element, c, msg) ==
    entry_steps(fn, element, c, msg, build_error(fn), parse_dtype(element.k))

to_integer(element, c) ==
    IF isnull(element) THEN Return(np_nan)
    ELSE entry_dispatch("to_integer", element, c, "element to int")

to_float(element, c) ==
    IF isnull(element) THEN Return(np_nan)
    ELSE entry_dispatch("to_float", element, c, "element to float")

to_complex(element, c) ==
    IF isnull(element) THEN Return(np_nan)
    ELSE entry_dispatch("to_complex", element, c, "element to complex")

\* a variant of to_boolean that builds its table and looks the rule up before it
\* tests for a missing value
to_boolean_lookup_first(element, c) ==
    entry_dispatch("to_boolean", element, c, "element to bool")

to_boolean(element, c) ==
    IF isnull(element) THEN Return(pd_NA)
    ELSE entry_dispatch("to_boolean", element, c, "element to bool")

to_string(element, c) ==
    IF isnull(element) THEN Return(pd_NA)
    ELSE entry_dispatch("to_string", element, c, "element to string")

to_datetime(element, c) ==
    IF isnull(element) THEN Return(pd_NaT)
    ELSE entry_dispatch("to_datetime", element, c, "element to datetime")

to_timedelta(element, c) ==
    IF isnull(element) THEN Return(pd_NaT)
    ELSE entry_dispatch("to_timedelta", element, c, "element to timedelta")

----------------------------------------------------------------------------
(* Calls by name *)

\* the call ref(x, **args) of the callable that the name ref is bound to
invoke(ref, x, args) ==
    IF ref \notin ModuleNames \cup TypeNames THEN Raise("NameError", ref)
    ELSE IF ~Accepts(ref, args) THEN Raise("TypeError", "unexpected keyword argument")
    ELSE CASE ref = "integer_to_float" -> integer_to_float(x, args)
           [] ref = "integer_to_complex" -> integer_to_complex(x, args)
           [] ref = "integer_to_string" -> integer_to_string(x, args)
           [] ref = "integer_to_boolean" -> integer_to_boolean(x, args)
           [] ref = "integer_to_datetime" -> integer_to_datetime(x, args)
           [] ref = "integer_to_timedelta" -> integer_to_timedelta(x, args)
           [] ref = "float_to_integer" -> float_to_integer(x, args)
           [] ref = "float_to_complex" -> float_to_complex(x, args)
           [] ref = "float_to_string" -> float_to_string(x, args)
           [] ref = "_float_to_boolean" -> _float_to_boolean(x, args)
           [] ref = "_float_to_datetime" -> _float_to_datetime(x, args)
           [] ref = "_float_to_timedelta" -> _float_to_timedelta(x, args)
           [] ref = "_complex_to_integer" -> _complex_to_integer(x, args)
           [] ref = "_complex_to_float" -> _complex_to_float(x, args)
           [] ref = "_complex_to_string" -> _complex_to_string(x, args)
           [] ref = "_complex_to_boolean" -> _complex_to_boolean(x, args)
           [] ref = "_complex_to_datetime" -> _complex_to_datetime(x, args)
           [] ref = "_complex_to_timedelta" -> _complex_to_timedelta(x, args)
           [] ref = "_boolean_to_integer" -> _boolean_to_integer(x, args)
           [] ref = "_boolean_to_float" -> _boolean_to_float(x, args)
           [] ref = "_boolean_to_complex" -> _boolean_to_complex(x, args)
           [] ref = "_boolean_to_string" -> _boolean_to_string(x, args)
           [] ref = "_boolean_to_datetime" -> _boolean_to_datetime(x, args)
           [] ref = "_boolean_to_timedelta" -> _boolean_to_timedelta(x, args)
           [] ref = "_datetime_to_integer" -> _datetime_to_integer(x, args)
           [] ref = "_datetime_to_float" -> _datetime_to_float(x, args)
           [] ref = "_datetime_to_complex" -> _datetime_to_complex(x, args)
           [] ref = "_datetime_to_string" -> _datetime_to_string(x, args)
           [] ref = "_datetime_to_boolean" -> _datetime_to_boolean(x, args)
           [] ref = "_datetime_to_timedelta" -> _datetime_to_timedelta(x, args)
           [] ref = "_timedelta_to_integer" -> _timedelta_to_integer(x, args)
           [] ref = "_timedelta_to_float" -> _timedelta_to_float(x, args)
           [] ref = "_timedelta_to_complex" -> _timedelta_to_complex(x, args)
           [] ref = "_timedelta_to_string" -> _timedelta_to_string(x, args)
           [] ref = "_timedelta_to_boolean" -> _timedelta_to_boolean(x, args)
           [] ref = "_timedelta_to_datetime" -> _timedelta_to_datetime(x, args)
           [] ref = "_string_to_integer" -> _string_to_integer(x, args)
           [] ref = "_string_to_float" -> _string_to_float(x, args)
           [] ref = "_string_to_complex" -> _string_to_complex(x, args)
           [] ref = "_string_to_boolean" -> _string_to_boolean(x, args)
           [] ref = "_string_to_datetime" -> _string_to_datetime(x, args)
           [] ref = "_string_to_timedelta" -> _string_to_timedelta(x, args)
           [] ref = "to_integer" -> to_integer(x, args)
           [] ref = "to_float" -> to_float(x, args)
           [] ref = "to_complex" -> to_complex(x, args)
           [] ref = "to_boolean" -> to_boolean(x, args)
           [] ref = "to_string" -> to_string(x, args)
           [] ref = "to_datetime" -> to_datetime(x, args)
           [] ref = "to_timedelta" -> to_timedelta(x, args)
           [] ref = "parse_string" -> Return(parse_string(x.s))
           [] ref = "parse_dtype" ->
                IF parse_dtype(x.k) = "TypeError"
                THEN Raise("TypeError", "unrecognized dtype")
                ELSE Return(PyStr(parse_dtype(x.k)))
           [] ref = "to_utc" -> Return(to_utc(x))
           \* a builtin type called on text parses a literal of its kind
           [] ref = "int" /\ x.k = "str" -> FromText(ParseInt(x.s))
           [] ref = "float" /\ x.k = "str" -> FromText(ParseFloat(x.s))
           [] ref = "complex" /\ x.k = "str" -> FromText(ParseComplex(x.s))
           [] OTHER -> Construct(ref, x)

----------------------------------------------------------------------------
(* Memoization: @cache on the seven entry points and on parse_string.  The   *)
(* cache is a dict from the call's arguments to the value returned; a call   *)
(* that raises stores nothing.                                               *)

\* the element as a dict key: keys that are equal and hash alike are one key
key_elem(element) ==
    CASE IsNumber(element) \/ element.k = "Decimal" -> V("number", element.a, element.b, "")
      [] element.k \in {"Timestamp", "datetime"} -> V("instant", element.a, 0, "")
      [] element.k \in {"Timedelta", "timedelta"} -> V("span", element.a, 0, "")
      [] OTHER -> element

\* the key of a call: the tuple of the arguments, compared by ==; a lone int
\* (no keyword passed) is its own key, outside any tuple, so it equals no
\* float or bool key
cache_key(fn, element, c) ==
    [fn |-> fn,
     e |-> IF c.passed = {} /\ element.k = "int" THEN element ELSE key_elem(element),
     passed |-> c.passed, kw |-> c.kw]

Hits(key) == {e \in cache : e.key = key}

\* a list passed as format: a value that hash() rejects
UnhashableFormat == "['%Y']"

\* the wrapper hashes the element and every keyword value passed to make the
\* key; among the values drawn here only the list passed as format has no hash
Hashable(element, c) == ~("format" \in c.passed /\ c.kw.format = UnhashableFormat)

Called(fn, element, c, out, hit) ==
    [fn |-> fn, elem |-> element, passed |-> c.passed, kw |-> c.kw, out |-> out,
     hit |-> hit]

NoCall == Called("", None, Args({}, Default("")), Pending, FALSE)

\* the outcome of a call of the memoized function fn, whose body gives `body`:
\* the stored value on a hit, else what the body returns or raises
memo_out(fn, element, c, body) ==
    IF ~Hashable(element, c) THEN Raise("TypeError", "unhashable type")
    ELSE IF ~Accepts(fn, c) THEN Raise("TypeError", "unexpected keyword argument")
    ELSE IF Hits(cache_key(fn, element, c)) # {}
         THEN Return((CHOOSE e \in Hits(cache_key(fn, element, c)) : TRUE).v)
    ELSE body

\* a variant of memo_store that keeps one entry only: storing evicts the rest
memo_store_evicting(fn, element, c, out) ==
    IF Hits(cache_key(fn, element, c)) = {} /\ out.st = "ok"
    THEN {[key |-> cache_key(fn, element, c), v |-> out.v]}
    ELSE cache

\* the cache after that call: a value returned on a miss is stored
memo_store(fn, element, c, out) ==
    IF Hits(cache_key(fn, element, c)) = {} /\ out.st = "ok"
    THEN cache \cup {[key |-> cache_key(fn, element, c), v |-> out.v]}
    ELSE cache

memo_last(fn, element, c, out) ==
    Called(fn, element, c, out, Hits(cache_key(fn, element, c)) # {})

\* no thread is inside a memoized call
NoThreads == <<>>

----------------------------------------------------------------------------
(* Inputs *)

\* the text str(1 + one unit): "1.1" when Digits = 1
NearOne == FloatStr(Scale + 1)

\* the four missing values and one element or two of every kind
EntryElems ==
    MissingValues \cup
    {PyInt(1), PyFloat(Scale + 1), PyComplex(Scale, Scale), PyBool(TRUE),
     PyStr(NearOne), PyStr("true"),
     DateTimeV("Timestamp", Scale, 0), TimeDeltaV("Timedelta", Scale),
     PyDecimal(Scale + Scale \div 2, "1.5")}

\* no keyword; and for the two narrowing entry points one keyword as well; and
\* for to_integer a format that cannot be hashed
EntryArgs(fn) ==
    {Args({}, Default(fn))}
      \cup (IF fn = "to_integer"
            THEN {Args({"force"}, [Default(fn) EXCEPT !.force = TRUE]),
                  Args({"format"}, [Default(fn) EXCEPT !.format = UnhashableFormat])}
            ELSE {})
      \cup (IF fn = "to_boolean"
            THEN {Args({"ftol"}, [Default(fn) EXCEPT !.ftol = MaxFtol])}
            ELSE {})

Strings ==
    {"10", " 7 ", NearOne, "1.5", ".5", "-0.5",
     "(1+2j)", "2j", "1.5-1j",
     "1 day, 0:00:10", "0:00:10", "1 days 00:00:10", "0:00:01.500000",
     "1970-01-01 00:00:10+00:00", "1970-01-01", "1970-01-01 01:00:00+01:00",
     "true", "True", " T ", "t", "f", "false", " False ", "  tRuE",
     "abc", "yes", "tru", "truee", "t rue"}

FtolSet == 0..MaxFtol \cup {Scale}

\* fractional parts: near 0, at one half, near 1
Fracs == {d \in 0..(Scale - 1) : d <= 2 * MaxFtol \/ d = Scale \div 2 \/ d >= Scale - 2 * MaxFtol}

Reals == {n * Scale + d : n \in (-MaxInt)..MaxInt, d \in Fracs}

SomeReals == {n * Scale + d : n \in {-1, 0, 1}, d \in {0, 1, Scale \div 2}}

\* the concrete types a caller may ask a function to return
ReturnTypes(fn) ==
    CASE fn \in Targets.datetime -> {"Timestamp", "datetime"}
      [] fn \in Targets.timedelta -> {"Timedelta", "timedelta"}
      [] OTHER -> {DefaultReturnType(fn)}

\* the non-missing elements of the kind a rule converts from
SourceElems(fn) ==
    CASE fn \in Rules.int -> {PyInt(n) : n \in (-MaxInt)..MaxInt}
      [] fn \in Rules.float -> {PyFloat(x) : x \in Reals}
      [] fn \in Rules.complex ->
            {PyComplex(re, im) : re \in SomeReals, im \in {-1, 0, 1, MaxFtol, Scale}}
      [] fn \in Rules.str -> {PyStr(s) : s \in Strings}
      [] fn \in Rules.bool -> {PyBool(TRUE), PyBool(FALSE)}
      [] fn \in Rules.datetime ->
            {DateTimeV(rt, x, off) : rt \in {"Timestamp", "datetime"},
                                     x \in SomeReals \cup {2 * Scale}, off \in {0, 1}}
      [] fn \in Rules.timedelta ->
            {TimeDeltaV(rt, x) : rt \in {"Timedelta", "timedelta"},
                                 x \in SomeReals \cup {2 * Scale, 86410 * Scale}}

\* for the two rules that make a float of an integer, the first integer that
\* no float holds
PastExact(fn) ==
    IF fn \in {"integer_to_float", "integer_to_complex"} THEN {PyInt(FloatExact + 1)} ELSE {}

\* a pandas value with a part below the microsecond: a holds its seconds to the
\* microsecond, which is all that timestamp() and fromtimestamp() keep
WithNanos(x) == [x EXCEPT !.s = "ns"]

\* for the two rules between datetime and timedelta, a Timestamp and a
\* Timedelta of nanosecond resolution
SubMicro(fn) ==
    CASE fn = "_datetime_to_timedelta" -> {WithNanos(DateTimeV("Timestamp", Scale, 0))}
      [] fn = "_timedelta_to_datetime" -> {WithNanos(TimeDeltaV("Timedelta", Scale))}
      [] OTHER -> {}

RuleElems(fn) == MissingValues \cup SourceElems(fn) \cup PastExact(fn) \cup SubMicro(fn)

\* every declared keyword passed, or none
RuleArgs(fn) ==
    {Args({}, Default(fn))} \cup
    {Args(Params(fn), Kw(force, round, ftol, format, rt)) :
        force \in (IF "force" \in Params(fn) THEN BOOLEAN ELSE {Default(fn).force}),
        round \in (IF "round" \in Params(fn) THEN BOOLEAN ELSE {Default(fn).round}),
        ftol \in (IF "ftol" \in Params(fn) THEN FtolSet ELSE {Default(fn).ftol}),
        format \in (IF "format" \in Params(fn) THEN {"None", "%Y"} ELSE {Default(fn).format}),
        rt \in ReturnTypes(fn)}

----------------------------------------------------------------------------
(* Spec: calls of the memoized entry points *)

Init ==
    /\ cache = {}
    /\ last = NoCall
    /\ ncalls = 0
    /\ threads = NoThreads

Call_to_integer ==
    /\ ncalls < MaxCalls
    /\ UNCHANGED threads
    /\ \E element \in EntryElems, c \in EntryArgs("to_integer") :
           \E out \in {memo_out("to_integer", element, c, invoke("to_integer", element, c))} :
               /\ cache' = memo_store("to_integer", element, c, out)
               /\ last' = memo_last("to_integer", element, c, out)
               /\ ncalls' = ncalls + 1

Call_to_float ==
    /\ ncalls < MaxCalls
    /\ UNCHANGED threads
    /\ \E element \in EntryElems, c \in EntryArgs("to_float") :
           \E out \in {memo_out("to_float", element, c, invoke("to_float", element, c))} :
               /\ cache' = memo_store("to_float", element, c, out)
               /\ last' = memo_last("to_float", element, c, out)
               /\ ncalls' = ncalls + 1

Call_to_complex ==
    /\ ncalls < MaxCalls
    /\ UNCHANGED threads
    /\ \E element \in EntryElems, c \in EntryArgs("to_complex") :
           \E out \in {memo_out("to_complex", element, c, invoke("to_complex", element, c))} :
               /\ cache' = memo_store("to_complex", element, c, out)
               /\ last' = memo_last("to_complex", element, c, out)
               /\ ncalls' = ncalls + 1

Call_to_boolean ==
    /\ ncalls < MaxCalls
    /\ UNCHANGED threads
    /\ \E element \in EntryElems, c \in EntryArgs("to_boolean") :
           \E out \in {memo_out("to_boolean", element, c, invoke("to_boolean", element, c))} :
               /\ cache' = memo_store("to_boolean", element, c, out)
               /\ last' = memo_last("to_boolean", element, c, out)
               /\ ncalls' = ncalls + 1

Call_to_string ==
    /\ ncalls < MaxCalls
    /\ UNCHANGED threads
    /\ \E element \in EntryElems, c \in EntryArgs("to_string") :
           \E out \in {memo_out("to_string", element, c, invoke("to_string", element, c))} :
               /\ cache' = memo_store("to_string", element, c, out)
               /\ last' = memo_last("to_string", element, c, out)
               /\ ncalls' = ncalls + 1

Call_to_datetime ==
    /\ ncalls < MaxCalls
    /\ UNCHANGED threads
    /\ \E element \in EntryElems, c \in EntryArgs("to_datetime") :
           \E out \in {memo_out("to_datetime", element, c, invoke("to_datetime", element, c))} :
               /\ cache' = memo_store("to_datetime", element, c, out)
               /\ last' = memo_last("to_datetime", element, c, out)
               /\ ncalls' = ncalls + 1

Call_to_timedelta ==
    /\ ncalls < MaxCalls
    /\ UNCHANGED threads
    /\ \E element \in EntryElems, c \in EntryArgs("to_timedelta") :
           \E out \in {memo_out("to_timedelta", element, c, invoke("to_timedelta", element, c))} :
               /\ cache' = memo_store("to_timedelta", element, c, out)
               /\ last' = memo_last("to_timedelta", element, c, out)
               /\ ncalls' = ncalls + 1

Next ==
    \/ Call_to_integer
    \/ Call_to_float
    \/ Call_to_complex
    \/ Call_to_boolean
    \/ Call_to_string
    \/ Call_to_datetime
    \/ Call_to_timedelta

Spec == Init /\ [][Next]_vars

----------------------------------------------------------------------------
(* RuleSpec: one conversion rule applied to one drawn input *)

RuleInit ==
    /\ cache = {}
    /\ ncalls = 0
    /\ threads = NoThreads
    /\ \E fn \in RuleNames : \E element \in RuleElems(fn), c \in RuleArgs(fn) :
            last = Called(fn, element, c, Pending, FALSE)

ApplyRule ==
    /\ last.out = Pending
    /\ last' = [last EXCEPT !.out = invoke(last.fn, last.elem, Args(last.passed, last.kw))]
    /\ UNCHANGED <<cache, ncalls, threads>>

RuleNext == ApplyRule

RuleSpec == RuleInit /\ [][RuleNext]_vars

----------------------------------------------------------------------------
(* ParseSpec: calls of the memoized parse_string *)

\* parse_string(string): no keyword
NoArgs == Args({}, Default("parse_string"))

Call_parse_string ==
    /\ ncalls < MaxCalls
    /\ UNCHANGED threads
    /\ \E element \in {PyStr(s) : s \in Strings} :
           \E out \in {memo_out("parse_string", element, NoArgs,
                                 invoke("parse_string", element, NoArgs))} :
               /\ cache' = memo_store("parse_string", element, NoArgs, out)
               /\ last' = memo_last("parse_string", element, NoArgs, out)
               /\ ncalls' = ncalls + 1

ParseNext == Call_parse_string

ParseSpec == Init /\ [][ParseNext]_vars

----------------------------------------------------------------------------
(* CacheSpec: calls of all eight memoized functions in one process *)

CacheNext ==
    \/ Next
    \/ ParseNext

CacheSpec == Init /\ [][CacheNext]_vars
----------------------------------------------------------------------------
(* RaceSpec: two threads make the same call of a memoized function.  The    *)
(* wrapper that functools.cache puts around the function looks the key up,  *)
(* on a miss calls the function, and then assigns the result to the key;    *)
(* another thread can run between any two of these steps.                   *)

Threads == {1, 2}

\* where a thread is inside the wrapper, and the outcome it has so far
At(at, out) == [at |-> at, out |-> out]

\* a variant of cache_assign in which assigning to a key that has an entry
\* deletes the entry
cache_assign_toggle(key, v) ==
    IF Hits(key) # {} THEN cache \ Hits(key)
    ELSE cache \cup {[key |-> key, v |-> v]}

\* cache[key] = v
cache_assign(key, v) == (cache \ Hits(key)) \cup {[key |-> key, v |-> v]}

\* the key of the call the threads make
RaceKey == cache_key(last.fn, last.elem, Args(last.passed, last.kw))

RaceInit ==
    /\ cache = {}
    /\ ncalls = 0
    /\ threads = [t \in Threads |-> At("start", Pending)]
    /\ \E fn \in EntryPoints : \E element \in EntryElems, c \in EntryArgs(fn) :
            last = Called(fn, element, c, Pending, FALSE)

\* the lookup: a hit returns the stored value
Lookup(t) ==
    /\ threads[t].at = "start"
    /\ threads' = [threads EXCEPT ![t] =
                      IF ~Hashable(last.elem, Args(last.passed, last.kw))
                      THEN At("done", Raise("TypeError", "unhashable type"))
                      ELSE IF Hits(RaceKey) # {}
                      THEN At("done", Return((CHOOSE e \in Hits(RaceKey) : TRUE).v))
                      ELSE At("missed", Pending)]
    /\ UNCHANGED <<cache, last, ncalls>>

\* the call of the function on a miss: an exception leaves the wrapper
Compute(t) ==
    /\ threads[t].at = "missed"
    /\ \E out \in {invoke(last.fn, last.elem, Args(last.passed, last.kw))} :
           threads' = [threads EXCEPT ![t] =
                          At(IF out.st = "ok" THEN "computed" ELSE "done", out)]
    /\ UNCHANGED <<cache, last, ncalls>>

\* the assignment of the result to the key, and the return
Store(t) ==
    /\ threads[t].at = "computed"
    /\ cache' = cache_assign(RaceKey, threads[t].out.v)
    /\ threads' = [threads EXCEPT ![t] = At("done", threads[t].out)]
    /\ UNCHANGED <<last, ncalls>>

RaceNext == \E t \in Threads : Lookup(t) \/ Compute(t) \/ Store(t)

RaceSpec == RaceInit /\ [][RaceNext]_vars

----------------------------------------------------------------------------
(* SeriesSpec: the column-level float_to_string of the cast module, which the  *)
(* tests in cast_float_to_string_test.py call.  Its code is not in the tree:  *)
(* it is taken to apply the rule float_to_string to every cell, in order, as  *)
(* the kernel's description of the column-level dispatch says, and to check   *)
(* `dtype` first, as the tests of its errors expect.                          *)

\* the values of `dtype` in the tests
DTypes == {"str", "int", "float", "complex", "bool", "datetime", "timedelta", "object"}

StringLike == {"str"}

\* the outcome of the rule fn on every cell of the column
apply_each(fn, series, c) == [i \in DOMAIN series |-> invoke(fn, series[i], c)]

\* the column of the values returned, or the first failure
collect(outs) ==
    IF \E i \in DOMAIN outs : outs[i].st # "ok"
    THEN outs[CHOOSE i \in DOMAIN outs :
                /\ outs[i].st # "ok"
                /\ \A j \in DOMAIN outs : outs[j].st # "ok" => i <= j]
    ELSE Return([i \in DOMAIN outs |-> outs[i].v])

\* the column function without its check of `dtype`
cast_float_to_string_unchecked(series, c) ==
    collect(apply_each("float_to_string", series, c))

\* pdtypes.cast.float_to_string(series, dtype=...); the message is written here
\* without the backquotes it has around the word dtype
cast_float_to_string(series, c) ==
    IF Arg("float_to_string", c, "return_type") \notin StringLike
    THEN Raise("TypeError", "dtype must be string-like (received: "
                              \o Arg("float_to_string", c, "return_type") \o ")")
    ELSE collect(apply_each("float_to_string", series, c))

\* the cells of a column of floats: floats, and None or NaN where one is missing
SeriesCells == {None, np_nan} \cup {PyFloat(x) : x \in SomeReals}

SeriesInputs == UNION {[1..n -> SeriesCells] : n \in 0..MaxLen}

\* dtype left out, or one of the dtypes of the tests
SeriesArgs ==
    {Args({}, Default("float_to_string"))} \cup
    {Args({"return_type"}, [Default("float_to_string") EXCEPT !.return_type = d]) : d \in DTypes}

SeriesInit ==
    /\ cache = {}
    /\ ncalls = 0
    /\ threads = NoThreads
    /\ \E series \in SeriesInputs, c \in SeriesArgs :
            last = Called("cast.float_to_string", series, c, Pending, FALSE)

ApplySeries ==
    /\ last.out = Pending
    /\ last' = [last EXCEPT !.out = cast_float_to_string(last.elem, Args(last.passed, last.kw))]
    /\ UNCHANGED <<cache, ncalls, threads>>

SeriesNext == ApplySeries

SeriesSpec == SeriesInit /\ [][SeriesNext]_vars

----------------------------------------------------------------------------
(* Properties *)

\* the call the last step made
LastArgs == Args(last.passed, last.kw)

LastOpt(p) == Arg(last.fn, LastArgs, p)

\* the missing value of each target kind: NaN for the three numeric kinds, NA
\* for Boolean and String, NaT for DateTime and Duration
TargetMissing(fn) ==
    CASE fn \in Targets.int \cup Targets.float \cup Targets.complex -> np_nan
      [] fn \in Targets.bool \cup Targets.str -> pd_NA
      [] fn \in Targets.datetime \cup Targets.timedelta -> pd_NaT

\* the functions that convert into the same kind as fn
SameTarget(fn) ==
    CASE fn \in Targets.int -> Targets.int
      [] fn \in Targets.float -> Targets.float
      [] fn \in Targets.complex -> Targets.complex
      [] fn \in Targets.str -> Targets.str
      [] fn \in Targets.bool -> Targets.bool
      [] fn \in Targets.datetime -> Targets.datetime
      [] fn \in Targets.timedelta -> Targets.timedelta

\* the rules that convert from the kind of x
SourceRules(x) ==
    CASE x.k = "int" -> Rules.int
      [] x.k = "float" -> Rules.float
      [] x.k = "complex" -> Rules.complex
      [] x.k = "str" -> Rules.str
      [] x.k = "bool" -> Rules.bool
      [] x.k \in {"Timestamp", "datetime"} -> Rules.datetime
      [] x.k \in {"Timedelta", "timedelta"} -> Rules.timedelta
      [] OTHER -> {}

\* the rule of the matrix cell (kind of x, target of fn): none for a missing
\* value and none for a self-conversion
CellRule(x, fn) == SourceRules(x) \cap SameTarget(fn)

\* the rule r called with the options the call of fn with arguments c carries
RuleOutcome(r, x, fn, c) == invoke(r, x, Partial(fn, c, Params(r) \cap Params(fn)))

\* the same result, or a failure of the same kind once lookup and value errors
\* are folded into the one conversion error
SameOutcome(a, b) ==
    IF a.st = "ok" \/ b.st = "ok" THEN a = b
    ELSE a.exc = b.exc \/ {a.exc, b.exc} \subseteq {"KeyError", "ValueError"}

\* a failure of the loss policy
IsLoss(out) == out.st = "raise" /\ out.exc = "ValueError"

\* n is an integer nearest to x units
IsNearest(n, x) ==
    /\ n \in {x \div Scale, x \div Scale + 1}
    /\ \A m \in {x \div Scale, x \div Scale + 1} : Abs(n * Scale - x) <= Abs(m * Scale - x)

\* n is x units truncated toward zero
IsTruncated(n, x) ==
    /\ Abs(n * Scale) <= Abs(x)
    /\ Abs(x) - Abs(n * Scale) < Scale
    /\ (n = 0 \/ (n < 0) = (x < 0))

\* the fractional part of x units
Frac(x) == x % Scale

\* the number a narrowing rule compares its candidate with: the complex value,
\* the float, the UTC timestamp, the total seconds
Compared(x) ==
    IF x.k = "complex" THEN PyComplex(x.a, x.b) ELSE PyFloat(x.a)

\* C1: a call of an entry point with a missing value returns the missing value
\* of the target kind and never raises, whatever options are passed; the test
\* for a missing value comes before the table is built and before any lookup
\* (so it returns even where building the table raises).  The options are
\* values of the options' types (format: text or None); a call whose options
\* cannot be hashed is the case of C14.
C1_NullPropagation ==
    (last.fn \in EntryPoints /\ isnull(last.elem) /\ Hashable(last.elem, LastArgs)) =>
        last.out = Return(TargetMissing(last.fn))

C1_Witness ==
    /\ last.fn = "to_boolean"
    /\ last.elem = np_nan
    /\ last.passed = {"ftol"}
    /\ ~last.hit
    /\ last.out = Return(pd_NA)
    /\ build_error("to_boolean") # ""

\* C2: every rule applied to a missing value returns the missing value of its
\* target kind, the one the entry point of that kind returns, for all options.
C2_NullLaw ==
    (last.fn \in RuleNames /\ last.out # Pending /\ isnull(last.elem)) =>
        last.out = Return(TargetMissing(last.fn))

C2_Witness ==
    /\ last.fn = "integer_to_string"
    /\ last.elem = np_nan
    /\ last.out = Return(None)
    /\ to_string(np_nan, Args({}, Default("to_string"))) = Return(pd_NA)
    /\ _complex_to_string(np_nan, Args({}, Default("_complex_to_string"))) = Return(pd_NA)

\* C3: after any earlier calls, a call of an entry point has the outcome of the
\* rule of its matrix cell applied to the same value with the same options, and
\* a cache hit returns what the uncached body returns.
C3_MemoTransparent ==
    (last.fn \in EntryPoints /\ Accepts(last.fn, LastArgs)) =>
        /\ \A r \in CellRule(last.elem, last.fn) :
               SameOutcome(last.out, RuleOutcome(r, last.elem, last.fn, LastArgs))
        /\ last.hit => last.out = invoke(last.fn, last.elem, LastArgs)

C3_Witness ==
    /\ last.fn = "to_float"
    /\ last.elem = PyInt(1)
    /\ ncalls = 2
    /\ last.out.st = "raise"
    /\ last.out.exc = "NameError"
    /\ integer_to_float(PyInt(1), Args({}, Default("integer_to_float"))) = Return(PyFloat(Scale))

\* C4: without force, float_to_integer succeeds exactly when the nearest integer
\* lies strictly within ftol of the float, and then returns that integer;
\* otherwise it fails for loss of precision.  For a tolerance of at most a third,
\* a fractional part of half the tolerance succeeds and a fractional part of
\* twice the tolerance fails, unless force is set.
C4_ToleranceBoundary ==
    (last.fn = "float_to_integer" /\ last.out # Pending /\ ~isnull(last.elem)) =>
        /\ ~LastOpt("force") =>
              /\ (last.out.st = "ok") <=>
                     \E n \in {last.elem.a \div Scale, last.elem.a \div Scale + 1} :
                         /\ IsNearest(n, last.elem.a)
                         /\ Abs(n * Scale - last.elem.a) < LastOpt("ftol")
              /\ last.out.st = "ok" =>
                     /\ last.out.v.k = "int"
                     /\ IsNearest(last.out.v.a \div Scale, last.elem.a)
                     /\ last.out.v.a % Scale = 0
              /\ last.out.st # "ok" =>
                     /\ IsLoss(last.out)
                     /\ last.out.msg = "float to int without losing information"
        /\ (LastOpt("ftol") > 0 /\ 3 * LastOpt("ftol") <= Scale) =>
              /\ 2 * Frac(last.elem.a) = LastOpt("ftol") => last.out.st = "ok"
              /\ Frac(last.elem.a) = 2 * LastOpt("ftol") =>
                     (last.out.st = "ok") = LastOpt("force")

\* the distance equals the tolerance: not strictly within it
C4_Witness ==
    /\ last.fn = "float_to_integer"
    /\ last.elem = PyFloat(Scale + 1)
    /\ "ftol" \in last.passed
    /\ LastOpt("ftol") = 1
    /\ ~LastOpt("force")
    /\ IsLoss(last.out)

NarrowingToInteger ==
    {"float_to_integer", "_complex_to_integer", "_datetime_to_integer",
     "_timedelta_to_integer"}

NarrowingRules ==
    NarrowingToInteger \cup
    {"_float_to_boolean", "_complex_to_boolean", "_datetime_to_boolean",
     "_timedelta_to_boolean", "integer_to_boolean", "_complex_to_float",
     "_complex_to_datetime", "_complex_to_timedelta"}

\* C5: a narrowing rule that fails for loss of precision succeeds on the same
\* input with force set; with force set a rule into int returns the nearest
\* integer when round is set, and otherwise the nearest integer if it lies
\* within ftol of the value and else the value truncated toward zero.
C5_ForceBypass ==
    (last.fn \in NarrowingRules /\ last.out # Pending /\ ~isnull(last.elem)) =>
        /\ (IsLoss(last.out) /\ ~LastOpt("force")) =>
              invoke(last.fn, last.elem,
                     Args(last.passed \cup {"force"}, [last.kw EXCEPT !.force = TRUE])).st = "ok"
        /\ LastOpt("force") => last.out.st = "ok"
        /\ (last.fn \in NarrowingToInteger /\ LastOpt("force")) =>
              /\ last.out.v.k = "int"
              /\ last.out.v.a % Scale = 0
              /\ IF LastOpt("round")
                    \/ \E n \in {last.elem.a \div Scale, last.elem.a \div Scale + 1} :
                           /\ IsNearest(n, last.elem.a)
                           /\ close(PyFloat(n * Scale), Compared(last.elem),
                                    LastOpt("ftol"))
                 THEN IsNearest(last.out.v.a \div Scale, last.elem.a)
                 ELSE IsTruncated(last.out.v.a \div Scale, last.elem.a)

\* forced, not rounded, halfway between two integers: truncated
C5_Witness ==
    /\ last.fn = "float_to_integer"
    /\ last.elem = PyFloat(Scale + Scale \div 2)
    /\ LastOpt("force")
    /\ ~LastOpt("round")
    /\ LastOpt("ftol") = 1
    /\ last.out = Return(PyInt(1))
    /\ IsLoss(float_to_integer(last.elem, Args({"round"}, [last.kw EXCEPT !.force = FALSE])))

\* C6: to_boolean of text that encodes a float within ftol of 1 infers the
\* float, narrows it within the tolerance and returns True; of text that
\* encodes a float farther than ftol from 0 and from 1 it fails for loss of
\* precision when force is not set.  NearOne encodes 1 plus one unit.
C6_StringToBoolean ==
    (last.fn = "to_boolean" /\ last.elem = PyStr(NearOne) /\ ~LastOpt("force")) =>
        /\ parse_string(NearOne) = PyFloat(Scale + 1)
        /\ IF 1 < LastOpt("ftol")
           THEN last.out = Return(PyBool(TRUE))
           ELSE IsLoss(last.out)

C6_Witness ==
    /\ last.fn = "to_boolean"
    /\ last.elem = PyStr(NearOne)
    /\ last.passed = {"ftol"}
    /\ LastOpt("ftol") = MaxFtol
    /\ last.out.st = "raise"
    /\ last.out.exc = "NameError"
    /\ _float_to_boolean(PyFloat(Scale + 1), Args({"ftol"}, last.kw)) = Return(PyBool(TRUE))

\* C7: for text whose inference yields a value of a kind other than text, a
\* call of an entry point has the outcome of the rule from the inferred kind
\* to the target applied to the inferred value with the same options.
C7_StringRoutes ==
    (/\ last.fn \in EntryPoints
     /\ Accepts(last.fn, LastArgs)
     /\ last.elem.k = "str"
     /\ parse_string(last.elem.s).k # "str") =>
        \A r \in CellRule(parse_string(last.elem.s), last.fn) :
            SameOutcome(last.out,
                        RuleOutcome(r, parse_string(last.elem.s), last.fn, LastArgs))

C7_Witness ==
    /\ last.fn = "to_float"
    /\ last.elem = PyStr("true")
    /\ parse_string("true") = PyBool(TRUE)
    /\ last.out.st = "raise"
    /\ last.out.exc = "NameError"
    /\ _boolean_to_float(PyBool(TRUE), Args({}, Default("_boolean_to_float")))
           = Return(PyFloat(Scale))
    /\ _string_to_float(PyStr("true"), Args({}, Default("_string_to_float"))).exc
           = "NameError"

\* the keys of the seven source kinds
SourceKinds == {"int", "float", "complex", "bool", "str", "datetime", "timedelta"}

\* C8: the table of every entry point holds, for each of the seven source
\* kinds, a rule that is a function the module defines (or the lambda of the
\* self-conversion), so a call with a value of one of the seven kinds reaches
\* a rule: it does not fail in building the table or in the lookup.
C8_MatrixComplete ==
    last.fn \in EntryPoints =>
        /\ \A k \in SourceKinds :
               /\ k \in DOMAIN conversion_map(last.fn)
               /\ conversion_map(last.fn)[k].ref \in RuleNames \cup {"lambda"}
        /\ (~isnull(last.elem) /\ Accepts(last.fn, LastArgs)) =>
               ~(last.out.st = "raise" /\ last.out.exc \in {"NameError", "KeyError"})

C8_Witness ==
    /\ last.fn = "to_integer"
    /\ last.elem = PyFloat(Scale + 1)
    /\ last.out = Raise("NameError", "conversion_map")
    /\ conversion_map("to_integer").float.ref = "_float_to_integer"
    /\ "_float_to_integer" \notin ModuleNames
    /\ "float_to_integer" \in ModuleNames

\* C9: a call of an entry point that fails raises the one conversion error (a
\* ValueError naming the element and the target) or the error of an
\* unrecognized type; no lookup failure and no other exception escapes.
C9_ErrorNormalization ==
    (last.fn \in EntryPoints /\ Accepts(last.fn, LastArgs) /\ last.out.st = "raise") =>
        \/ last.out.exc = "ValueError"
        \/ last.out.exc = "TypeError" /\ last.out.msg = "unrecognized dtype"

C9_Witness ==
    /\ last.fn = "to_string"
    /\ last.elem = PyComplex(Scale, Scale)
    /\ last.out.st = "raise"
    /\ last.out.exc = "NameError"
    /\ reraise(last.out, "element to string") = last.out

\* the sample texts by what the boolean step makes of them
TrueTexts == {"true", "True", " T ", "t", "  tRuE"}

FalseTexts == {"f", "false", " False "}

PlainTexts == {"abc", "yes", "tru", "truee", "t rue"}

\* C10: parse_string tries the integer, float, complex, duration and datetime
\* literal in this order and the first that parses wins; then t/true and
\* f/false, whatever the case and the surrounding whitespace, are the two
\* booleans and any other text is returned unchanged.  "10" is the int 10,
\* "true" is True, "1 day, 0:00:10" is 86410 seconds, "abc" is "abc".
C10_InferenceCascade ==
    last.fn = "parse_string" =>
        /\ last.out.st = "ok"
        /\ ParseInt(last.elem.s).ok => last.out.v = ParseInt(last.elem.s).v
        /\ (~ParseInt(last.elem.s).ok /\ ParseFloat(last.elem.s).ok) =>
               last.out.v = ParseFloat(last.elem.s).v
        /\ (/\ ~ParseInt(last.elem.s).ok
            /\ ~ParseFloat(last.elem.s).ok
            /\ ParseComplex(last.elem.s).ok) =>
               last.out.v = ParseComplex(last.elem.s).v
        /\ (/\ ~ParseInt(last.elem.s).ok
            /\ ~ParseFloat(last.elem.s).ok
            /\ ~ParseComplex(last.elem.s).ok
            /\ ParseTimedelta(last.elem.s).ok) =>
               last.out.v = ParseTimedelta(last.elem.s).v
        /\ (/\ ~ParseInt(last.elem.s).ok
            /\ ~ParseFloat(last.elem.s).ok
            /\ ~ParseComplex(last.elem.s).ok
            /\ ~ParseTimedelta(last.elem.s).ok
            /\ ParseDatetime(last.elem.s).ok) =>
               last.out.v = ParseDatetime(last.elem.s).v
        /\ last.out.v.k = "bool" <=> last.elem.s \in TrueTexts \cup FalseTexts
        /\ last.elem.s \in TrueTexts => last.out.v = PyBool(TRUE)
        /\ last.elem.s \in FalseTexts => last.out.v = PyBool(FALSE)
        /\ last.elem.s \in PlainTexts => last.out.v = last.elem
        /\ last.out.v.k = "str" <=> last.elem.s \in PlainTexts
        /\ last.elem.s = "10" => last.out.v = PyInt(10)
        /\ last.elem.s = "true" => last.out.v = PyBool(TRUE)
        /\ last.elem.s = "1 day, 0:00:10" =>
               last.out.v = TimeDeltaV("Timedelta", 86410 * Scale)
        /\ last.elem.s = "abc" => last.out.v = PyStr("abc")

\* "10" is also a float, a complex and a duration literal: the order decides
C10_Witness ==
    /\ last.fn = "parse_string"
    /\ last.elem = PyStr("10")
    /\ last.out = Return(PyInt(10))
    /\ ParseFloat("10").ok
    /\ ParseComplex("10").ok
    /\ ParseTimedelta("10").ok

----------------------------------------------------------------------------
(* Properties, continued *)

\* the rules of the cell (kind of the last element, target of the last entry
\* point) that fail the loss gate on the last call's element and options
LossRules ==
    {r \in CellRule(last.elem, last.fn) :
        IsLoss(RuleOutcome(r, last.elem, last.fn, LastArgs))}

\* C11: when the rule of the cell fails the loss gate, the call of the entry
\* point fails with that rule's error, whose message names the source kind and
\* the target kind, and that error differs from the one a missing rule (a
\* failed lookup) ends in.
C11_LossErrorSurfaced ==
    (last.fn \in EntryPoints /\ Accepts(last.fn, LastArgs)) =>
        \A r \in LossRules :
            /\ last.out = RuleOutcome(r, last.elem, last.fn, LastArgs)
            /\ last.out # reraise(Raise("KeyError", "object"), last.out.msg)

\* to_integer(1.1): the rule fails the gate, the entry point raises NameError;
\* and the handler of the entry point gives a loss error and a failed lookup
\* the same ValueError
C11_Witness ==
    /\ last.fn = "to_integer"
    /\ last.elem = PyFloat(Scale + 1)
    /\ last.passed = {}
    /\ LossRules = {"float_to_integer"}
    /\ last.out.st = "raise"
    /\ last.out.exc = "NameError"
    /\ reraise(float_to_integer(last.elem, LastArgs), "element to int")
           = reraise(Raise("KeyError", "float"), "element to int")

\* C12: a step never removes an entry of the cache and never stores, for a key
\* that has an entry, an entry with another result.
C12_CacheGrows ==
    [][/\ cache \subseteq cache'
       /\ \A e \in cache : \A f \in cache' : f.key = e.key => f.v = e.v]_vars

\* two entries stored by two calls, the second of them by parse_string
C12_Witness ==
    /\ ncalls = 2
    /\ Cardinality(cache) = 2
    /\ last.fn = "parse_string"
    /\ ~last.hit
    /\ \E e \in cache : e.key.fn \in EntryPoints

\* the outcome of a call of a memoized function made alone on an empty cache
Alone(fn, element, c) ==
    IF ~Hashable(element, c) THEN Raise("TypeError", "unhashable type")
    ELSE invoke(fn, element, c)

C14_UnhashableBypass ==
    (last.fn \in EntryPoints /\ ~Hashable(last.elem, LastArgs)) =>
        /\ last.out = invoke(last.fn, last.elem, LastArgs)
        /\ Hits(cache_key(last.fn, last.elem, LastArgs)) = {}

\* to_integer(None, format=['%Y']): the wrapper raises, the function returns nan
C14_Witness ==
    /\ last.fn = "to_integer"
    /\ last.elem = None
    /\ last.passed = {"format"}
    /\ last.kw.format = UnhashableFormat
    /\ last.out = Raise("TypeError", "unhashable type")
    /\ to_integer(None, LastArgs) = Return(np_nan)
    /\ cache = {}

\* C15: the column function called with a string dtype (or none) returns one
\* cell per input cell, in order: the text str(f) for a float f, a missing
\* value for a missing cell; for columns without, with and of only missing cells.
C15_FloatToStringAccurate ==
    (/\ last.fn = "cast.float_to_string"
     /\ last.out # Pending
     /\ Arg("float_to_string", LastArgs, "return_type") \in StringLike) =>
        /\ last.out.st = "ok"
        /\ DOMAIN last.out.v = DOMAIN last.elem
        /\ \A i \in DOMAIN last.elem :
              IF isnull(last.elem[i])
              THEN last.out.v[i] \in MissingValues
              ELSE last.out.v[i] = PyStr(str(last.elem[i]))

\* [-0.5, NaN] gives ["-0.5", None]
C15_Witness ==
    /\ last.fn = "cast.float_to_string"
    /\ last.passed = {}
    /\ last.elem = <<PyFloat(-(Scale \div 2)), np_nan>>
    /\ last.out.st = "ok"
    /\ last.out.v = <<PyStr("-0.5"), None>>

AndThen(out, fn) ==
    IF out.st # "ok" THEN out ELSE invoke(fn, out.v, Args({}, Default(fn)))

\* to_float(to_integer(to_float(n)))
RoundTrip(n) == AndThen(AndThen(AndThen(Return(n), "to_float"), "to_integer"), "to_float")

\* C17: to_float called on an integer n with default options succeeds, and so
\* do to_integer on its result and to_float on that, and the final value
\* equals n.
C17_RoundTrip ==
    (last.fn = "to_float" /\ last.elem.k = "int" /\ last.passed = {}) =>
        /\ last.out.st = "ok"
        /\ RoundTrip(last.elem).st = "ok"
        /\ py_eq(RoundTrip(last.elem).v, last.elem)

\* to_float(1) fails at the first step, while the three rules in a row give 1.0
C17_Witness ==
    /\ last.fn = "to_float"
    /\ last.elem = PyInt(1)
    /\ last.passed = {}
    /\ last.out = Raise("NameError", "conversion_map")
    /\ RoundTrip(PyInt(1)) = last.out
    /\ AndThen(AndThen(AndThen(Return(PyInt(1)), "integer_to_float"), "float_to_integer"),
               "integer_to_float") = Return(PyFloat(Scale))

\* the last call is a call of the entry point of the kind its element has
SelfConversion ==
    /\ last.fn \in EntryPoints
    /\ ~isnull(last.elem)
    /\ parse_dtype(last.elem.k) \in DOMAIN Targets
    /\ last.fn \in Targets[parse_dtype(last.elem.k)]

\* the same number, truth value or text; for a datetime the same instant, for a
\* timedelta the same total seconds
SameContent(x, y) ==
    IF parse_dtype(x.k) \in {"datetime", "timedelta"}
    THEN parse_dtype(y.k) = parse_dtype(x.k) /\ y.a = x.a
    ELSE py_eq(x, y)

\* C18: an entry point called on a value of its own kind returns, and what it
\* returns has the content of the value; called again on that result with the
\* same options it returns the same result.
C18_SelfConversion ==
    (SelfConversion /\ Hashable(last.elem, LastArgs)) =>
        /\ last.out.st = "ok"
        /\ SameContent(last.elem, last.out.v)
        /\ invoke(last.fn, last.out.v, LastArgs) = last.out

\* to_integer(1) raises while building its table; its lambda alone returns 1
C18_Witness ==
    /\ last.fn = "to_integer"
    /\ last.elem = PyInt(1)
    /\ last.passed = {}
    /\ last.out = Raise("NameError", "conversion_map")
    /\ conversion_map("to_integer").int.ref = "lambda"
    /\ entry_lambda("to_integer", "int", last.elem, last.elem, LastArgs) = Return(PyInt(1))

\* C19: the type of True and of False is classified as bool and not as int, and
\* a call of an entry point on a boolean has the outcome of the callable its
\* table holds under bool (the rule from Boolean, or the lambda of to_boolean).
C19_BooleanDistinct ==
    (last.fn \in EntryPoints /\ last.elem.k = "bool" /\ Hashable(last.elem, LastArgs)) =>
        /\ \A b \in BOOLEAN : parse_dtype(PyBool(b).k) = "bool"
        /\ conversion_map(last.fn).bool.ref \in Rules.bool \cup {"lambda"}
        /\ last.out = entry_call(last.fn, last.elem, LastArgs, conversion_map(last.fn), "bool")

\* to_integer(True): bool is classified as bool and the rule under bool would
\* return 1, but the call raises while building its table
C19_Witness ==
    /\ last.fn = "to_integer"
    /\ last.elem = PyBool(TRUE)
    /\ last.passed = {}
    /\ parse_dtype(last.elem.k) = "bool"
    /\ conversion_map("to_integer").bool.ref = "_boolean_to_integer"
    /\ entry_call("to_integer", last.elem, LastArgs, conversion_map("to_integer"), "bool")
            = Return(PyInt(1))
    /\ last.out = Raise("NameError", "conversion_map")

\* the rules that widen: Integer to Float and Complex, Float to Complex, Boolean
\* to Integer, Float and Complex
Widening ==
    {"integer_to_float", "integer_to_complex", "float_to_complex",
     "_boolean_to_integer", "_boolean_to_float", "_boolean_to_complex"}

\* the entry point whose table holds the rule fn
EntryOf(fn) == CHOOSE e \in EntryPoints : e \in SameTarget(fn)

\* the arguments the table of the entry point passes to the rule of the last
\* call when the entry point is called with force, round and ftol (those of
\* them it declares)
ThroughTable(force, round, ftol) ==
    Partial(EntryOf(last.fn),
            Args(Params(EntryOf(last.fn)) \cap {"force", "round", "ftol"},
                 Kw(force, round, ftol, "None", LastOpt("return_type"))),
            conversion_map(EntryOf(last.fn))[parse_dtype(last.elem.k)].kws)

Seconds(x) == <<x.a, x.s>>

\* the rules of the bridge, applied to a value that is not missing
Bridged ==
    /\ last.fn \in {"_datetime_to_timedelta", "_timedelta_to_datetime", "integer_to_datetime"}
    /\ ~isnull(last.elem)
    /\ last.out # Pending

Verdict(out) == IF out.st = "ok" THEN out.v ELSE Raise(out.exc, "")

\* C22: _datetime_to_boolean and _timedelta_to_boolean applied to a value of s
\* seconds have, for every force and ftol, the outcome of _float_to_boolean
\* applied to s.
C22_SameGating ==
    (/\ last.fn \in {"_datetime_to_boolean", "_timedelta_to_boolean"}
     /\ ~isnull(last.elem)
     /\ last.out # Pending) =>
        Verdict(last.out) = Verdict(invoke("_float_to_boolean", PyFloat(last.elem.a), LastArgs))

\* a Timedelta of one unit with a tolerance of two units: the float rule snaps
\* to 0 and returns False, the timedelta rule takes bool() first and fails
C22_Witness ==
    /\ last.fn = "_timedelta_to_boolean"
    /\ last.elem = TimeDeltaV("Timedelta", 1)
    /\ LastOpt("ftol") = MaxFtol
    /\ ~LastOpt("force")
    /\ last.out = Raise("ValueError", "timedelta to bool")
    /\ invoke("_float_to_boolean", PyFloat(1), LastArgs) = Return(PyBool(FALSE))

\* _float_to_boolean applied without force to a float that is not missing
FloatGated ==
    /\ last.fn = "_float_to_boolean"
    /\ ~isnull(last.elem)
    /\ last.out # Pending
    /\ ~LastOpt("force")

\* |f - n| < ftol for the last element f
Within(n) == Abs(last.elem.a - n * Scale) < LastOpt("ftol")

\* C23 as stated: without force the rule returns True exactly when
\* |f - 1| < ftol, False exactly when |f| < ftol, and fails otherwise.
C23_FloatToBoolean ==
    FloatGated =>
        /\ last.out = Return(PyBool(TRUE)) <=> Within(1)
        /\ last.out = Return(PyBool(FALSE)) <=> Within(0)
        /\ last.out.st = "ok" \/ IsLoss(last.out)

\* C23 amended: without force the rule returns False exactly when the float is
\* within ftol of 0 and 0 is its nearest integer, True exactly when it is
\* within ftol of 1 and does not return False, and fails otherwise; for a
\* tolerance of at most one half these are |f| < ftol and |f - 1| < ftol, and
\* 2.0 and -1.0 fail.
C23_FloatToBooleanSnapped ==
    FloatGated =>
        /\ last.out = Return(PyBool(FALSE)) <=> (Within(0) /\ np_round(last.elem.a) = 0)
        /\ last.out = Return(PyBool(TRUE)) <=> (Within(1) /\ ~(Within(0) /\ np_round(last.elem.a) = 0))
        /\ last.out.st = "ok" \/ IsLoss(last.out)
        /\ 2 * LastOpt("ftol") <= Scale =>
              /\ last.out = Return(PyBool(TRUE)) <=> Within(1)
              /\ last.out = Return(PyBool(FALSE)) <=> Within(0)
              /\ last.elem.a \in {2 * Scale, -Scale} => IsLoss(last.out)

\* 0.1 with a tolerance of 0.2 is False: the snap to 0 comes before bool()
C23_Witness ==
    /\ last.fn = "_float_to_boolean"
    /\ last.elem = PyFloat(1)
    /\ LastOpt("ftol") = MaxFtol
    /\ ~LastOpt("force")
    /\ last.out = Return(PyBool(FALSE))

\* C24: integer_to_boolean without force returns False for 0, True for 1 and
\* fails for every other integer; with force it returns False for 0 and True
\* for every other integer; called with the arguments the table of to_boolean
\* passes, for any ftol, it has the same outcome.
C24_IntegerToBoolean ==
    (last.fn = "integer_to_boolean" /\ last.elem.k = "int" /\ last.out # Pending) =>
        /\ ~LastOpt("force") =>
              /\ last.elem.a = 0 => last.out = Return(PyBool(FALSE))
              /\ last.elem.a = Scale => last.out = Return(PyBool(TRUE))
              /\ last.elem.a \notin {0, Scale} => IsLoss(last.out)
        /\ LastOpt("force") => last.out = Return(PyBool(last.elem.a # 0))
        /\ \A ftol \in FtolSet :
              invoke("integer_to_boolean", last.elem, ThroughTable(LastOpt("force"), TRUE, ftol))
                  = last.out

\* integer_to_boolean(1) is True, but the table of to_boolean passes ftol, a
\* keyword the rule does not declare
C24_Witness ==
    /\ last.fn = "integer_to_boolean"
    /\ last.elem = PyInt(1)
    /\ last.passed = {}
    /\ last.out = Return(PyBool(TRUE))
    /\ conversion_map("to_boolean").int.kws = {"force", "ftol", "return_type"}
    /\ "ftol" \notin Params("integer_to_boolean")
    /\ invoke("integer_to_boolean", last.elem, ThroughTable(FALSE, TRUE, DefaultFtol)).exc
            = "TypeError"

\* a rule from complex applied without force to a complex number
ComplexGated ==
    /\ last.fn \in Rules.complex
    /\ last.elem.k = "complex"
    /\ last.out # Pending
    /\ ~LastOpt("force")

\* C25: without force, the rules from complex into float, datetime and
\* timedelta succeed exactly when |imaginary part| < ftol, and then hold the
\* real part alone; the rules into int and bool succeed only when the
\* magnitude of (result - element) is below ftol, so they fail whenever
\* |imaginary part| >= ftol, whole real part or not.
C25_ImaginaryDiscarded ==
    ComplexGated =>
        /\ last.fn \in {"_complex_to_float", "_complex_to_datetime", "_complex_to_timedelta"} =>
              /\ last.out.st = "ok" <=> Abs(last.elem.b) < LastOpt("ftol")
              /\ last.out.st = "ok" => (last.out.v.a = last.elem.a /\ last.out.v.b = 0)
              /\ last.out.st # "ok" => IsLoss(last.out)
        /\ last.fn \in {"_complex_to_integer", "_complex_to_boolean"} =>
              /\ last.out.st = "ok" =>
                    (last.out.v.a - last.elem.a) * (last.out.v.a - last.elem.a)
                        + last.elem.b * last.elem.b < LastOpt("ftol") * LastOpt("ftol")
              /\ Abs(last.elem.b) >= LastOpt("ftol") => IsLoss(last.out)

\* 1+1j has a whole real part, and _complex_to_integer fails on it; 1+0.1j
\* becomes the float 1.0 under a tolerance of two units
C25_Witness ==
    /\ last.fn = "_complex_to_integer"
    /\ last.elem = PyComplex(Scale, Scale)
    /\ ~LastOpt("force")
    /\ LastOpt("ftol") = MaxFtol
    /\ IsLoss(last.out)
    /\ invoke("_complex_to_float", PyComplex(Scale, 1),
              Args({"ftol"}, [Default("_complex_to_float") EXCEPT !.ftol = MaxFtol]))
            = Return(PyFloat(Scale))

\* C26: a call of an entry point of a target other than String on text ends;
\* the table of the target's string rule holds no rule for text, so the
\* inferred value is never given to a string rule again; the call returns, or
\* fails with the conversion error, and it fails for text that stays text.
C26_StringRouteOnce ==
    (/\ last.fn \in EntryPoints \ {"to_string"}
     /\ last.elem.k = "str"
     /\ Accepts(last.fn, LastArgs)
     /\ Hashable(last.elem, LastArgs)) =>
        /\ last.out.st \in {"ok", "raise"}
        /\ \A r \in Rules.str \cap SameTarget(last.fn) :
              /\ "str" \notin DOMAIN conversion_map(r)
              /\ \A k \in DOMAIN conversion_map(r) : conversion_map(r)[k].ref \notin Rules.str
        /\ last.out.st = "raise" => last.out.exc = "ValueError"
        /\ parse_string(last.elem.s).k = "str" => IsLoss(last.out)

\* to_integer("1.1") ends, but with the NameError of its table; its string
\* rule has no entry for text
C26_Witness ==
    /\ last.fn = "to_integer"
    /\ last.elem = PyStr(NearOne)
    /\ last.passed = {}
    /\ last.out = Raise("NameError", "conversion_map")
    /\ "str" \notin DOMAIN conversion_map("_string_to_integer")
    /\ invoke("_string_to_integer", last.elem, Args({}, Default("_string_to_integer"))).exc
            = "NameError"

\* True, 1 and 1.0
Ones == {PyBool(TRUE), PyInt(1), PyFloat(Scale)}

\* C27: the keys of calls of one entry point on True, on 1 and on 1.0 differ,
\* with the same keywords or none, and a call on one of them has the outcome of
\* the callable its table holds for the kind of its own element.
C27_KeysSeparateKinds ==
    (last.fn \in EntryPoints /\ last.elem \in Ones /\ Hashable(last.elem, LastArgs)) =>
        /\ \A x \in Ones \ {last.elem} :
              cache_key(last.fn, x, LastArgs) # cache_key(last.fn, last.elem, LastArgs)
        /\ last.out = entry_call(last.fn, last.elem, LastArgs, conversion_map(last.fn),
                                 parse_dtype(last.elem.k))

\* to_string(True): the call raises and stores nothing; its key is the key of
\* to_string(1.0), and not the key of to_string(1)
C27_Witness ==
    /\ last.fn = "to_string"
    /\ last.elem = PyBool(TRUE)
    /\ last.passed = {}
    /\ last.out = Raise("NameError", "conversion_map")
    /\ cache_key("to_string", PyBool(TRUE), LastArgs) = cache_key("to_string", PyFloat(Scale), LastArgs)
    /\ cache_key("to_string", PyBool(TRUE), LastArgs) # cache_key("to_string", PyInt(1), LastArgs)
    /\ entry_call("to_string", PyFloat(Scale), LastArgs, conversion_map("to_string"), "float").st
            = "raise"

\* the arguments of the last call with round the other way
RoundFlipped ==
    Args(last.passed \cup {"round"}, [last.kw EXCEPT !.round = ~LastOpt("round")])

\* C28: a rule into int applied without force has the same outcome with round
\* set and with round not set: the same integer, or the same failure.
C28_RoundUnobservable ==
    (/\ last.fn \in NarrowingToInteger
     /\ ~isnull(last.elem)
     /\ last.out # Pending
     /\ ~LastOpt("force")) =>
        invoke(last.fn, last.elem, RoundFlipped) = last.out

\* 1.5 with a tolerance of 1.0 and round not set: 2, as with round set, not 1
C28_Witness ==
    /\ last.fn = "float_to_integer"
    /\ last.elem = PyFloat(Scale + Scale \div 2)
    /\ ~LastOpt("force")
    /\ ~LastOpt("round")
    /\ LastOpt("ftol") = Scale
    /\ last.out = Return(PyInt(2))
    /\ invoke("float_to_integer", last.elem, RoundFlipped) = Return(PyInt(2))

\* the arguments of the last call with force set
Forced == Args(last.passed \cup {"force"}, [last.kw EXCEPT !.force = TRUE])

\* C29: after a call of to_integer or to_boolean on a float has raised, the
\* cache holds no entry under the key of that call, the same call made again
\* raises the same, and the call with force set has a key of its own and
\* returns.
C29_FailureLeavesCache ==
    (/\ last.fn \in {"to_integer", "to_boolean"}
     /\ last.elem.k = "float"
     /\ Hashable(last.elem, LastArgs)
     /\ last.out.st = "raise") =>
        /\ Hits(cache_key(last.fn, last.elem, LastArgs)) = {}
        /\ Alone(last.fn, last.elem, LastArgs) = last.out
        /\ ~LastOpt("force") =>
              /\ cache_key(last.fn, last.elem, Forced) # cache_key(last.fn, last.elem, LastArgs)
              /\ Alone(last.fn, last.elem, Forced).st = "ok"

\* to_integer(1.1) raised and stored nothing; to_integer(1.1, force=True) raises
\* as well
C29_Witness ==
    /\ last.fn = "to_integer"
    /\ last.elem = PyFloat(Scale + 1)
    /\ last.passed = {}
    /\ last.out = Raise("NameError", "conversion_map")
    /\ ncalls = MaxCalls
    /\ cache = {}
    /\ Alone("to_integer", last.elem, Forced) = last.out

\* the outcome the object entry of an entry point's table gives, and that of
\* the handler of an entry point whose table has no object entry
ObjectOutcome(fn, element, c) ==
    IF fn = "to_datetime" THEN Raise("ValueError", "element to datetime")
    ELSE IF fn = "to_timedelta" THEN Raise("ValueError", "element to timedelta")
    ELSE entry_lambda(fn, "object", element, element, c)

\* C30: a call of an entry point on a non-missing value classified as object
\* ends, for to_integer, to_float, to_complex, to_boolean and to_string, as
\* return_type applied to the target's constructor applied to the value, and
\* for to_datetime and to_timedelta in the conversion error of the handler.
C30_ObjectByTarget ==
    (/\ last.fn \in EntryPoints
     /\ ~isnull(last.elem)
     /\ parse_dtype(last.elem.k) = "object"
     /\ Hashable(last.elem, LastArgs)
     /\ Accepts(last.fn, LastArgs)) =>
        last.out = ObjectOutcome(last.fn, last.elem, LastArgs)

\* to_datetime(Decimal("1.5")) raised NameError; with its table built the lookup
\* of object fails and the handler raises the conversion error, and that of
\* to_integer returns int(Decimal("1.5")) = 1
C30_Witness ==
    /\ last.fn = "to_datetime"
    /\ last.elem = PyDecimal(Scale + Scale \div 2, "1.5")
    /\ last.out = Raise("NameError", "conversion_map")
    /\ "object" \notin DOMAIN conversion_map("to_datetime")
    /\ "object" \notin DOMAIN conversion_map("to_timedelta")
    /\ entry_steps("to_datetime", last.elem, LastArgs, "element to datetime", "", "object")
          = Raise("ValueError", "element to datetime")
    /\ entry_steps("to_integer", last.elem, Args({}, Default("to_integer")), "element to int", "", "object")
          = Return(PyInt(1))

=============================================================================
